---- MODULE Spec2Model ----
(***************************************************************************)
(* Fetch caches of the EU-Tutka data connectors.                           *)
(*                                                                         *)
(*   EurostatAPIConnector        eurostat-api-connector.js                 *)
(*   OECDEnvironmentalConnector  oecd-environmental-connector.js           *)
(*                                                                         *)
(* JavaScript runs the connectors on one event loop: an async method runs  *)
(* without interruption from one await to the next.  Each action below is  *)
(* one such uninterrupted segment.  The segment that follows the last      *)
(* await of a request (response.json() resolved or rejected, or fetch      *)
(* rejected) is the only one that reads or writes the cache after the      *)
(* request went out, so a response and its handling are one action.        *)
(* A settled call is taken by its caller in a microtask, that is before    *)
(* the event loop runs the next task (another response, another call).     *)
(***************************************************************************)
EXTENDS Integers, FiniteSets, Sequences, TLC

----------------------------------------------------------------------------
(* Bounds *)

\* number of calls that may be pending at the same time
MaxCalls == 2

\* the clock is observed until the end of the MaxPeriods-th Eurostat TTL period
MaxPeriods == 2

\* a payload has up to MaxGeo countries and up to MaxTime time periods
MaxGeo == 3

MaxTime == 2

\* a load gives up to MaxDocs documents
MaxDocs == 12

\* the OECD bodies hold up to MaxRecords records or observations
MaxRecords == 2

----------------------------------------------------------------------------
(* Program constants *)

\* this.cacheExpiry = 30 * 60 * 1000  (milliseconds)
cacheExpiry == 30 * 60 * 1000

\* this.cacheTimeout = 3600000  (milliseconds)
cacheTimeout == 3600000

\* keys of indicatorMap in getCircularEconomyData
indicatorMap == {"cei_srm030", "cei_wm011", "cei_pc020", "cei_cie011", "cei_gsr010"}

\* Property names every object literal inherits from Object.prototype: the
\* lookup indicatorMap[indicator] finds them although they are no indicators.
ObjectPrototypeProps == {"constructor", "toString", "valueOf", "hasOwnProperty"}

----------------------------------------------------------------------------
(* Inputs *)

Calls == 1 .. MaxCalls

\* the two connector classes; a page constructs one object of each and the
\* objects share nothing, so a behaviour follows one of them
Connectors == {"EurostatAPIConnector", "OECDEnvironmentalConnector"}

\* datasets requested directly through fetchEurostatData
Datasets == {"cei_srm030", "cei_wm011"}

\* JSON.stringify(options) / JSON.stringify(filters) of the objects callers pass
OptionSet == {"{}"}

\* indicator codes handed to getCircularEconomyData: a listed one, an unknown
\* one, and a name that Object.prototype defines
Indicators == {"cei_srm030", "cei_xxx999", "constructor"}

\* datasets handed to getEnvironmentalData: one that apiEndpoints lists and
\* one it does not (healthCheck and getAirQualityData ask for AIR_GHG)
OecdDatasets == {"MUNW", "AIR_GHG"}

NoBody == [none |-> TRUE]

\* Bodies a 2xx Eurostat response can carry: two well-formed SDMX-JSON
\* payloads and one JSON object that has neither `value` nor `dimension`.
GoodBodies == { [value |-> v, dimension |-> "geo,time"] : v \in 1 .. 2 }

MalformedBodies == { [message |-> "no structure"] }

Bodies == GoodBodies \cup MalformedBodies

\* Bodies a 2xx OECD.Stat response can carry: observations of one data set
\* (two different contents) and a body whose dataSets array is empty.
OecdBodies == { [dataSets |-> n, observations |-> v] : n \in {1}, v \in 1 .. 2 }
              \cup { [dataSets |-> 0, observations |-> 0] }

\* the JSON value {}
EmptyObject == [k \in {} |-> TRUE]

\* Bodies a 2xx response of the compass fallback can carry: data, an object
\* with an `error` field, the JSON value null and the empty object.
CompassBodies ==
    { [data |-> 3], [error |-> "compass has no data"], [null |-> TRUE], EmptyObject }

\* ways a request fails: fetch rejects, status is not 2xx, body is not JSON
Failures == {"network", "http", "json"}

\* instants at which Date.now() is observed: the start, the end of every
\* Eurostat TTL period (the OECD TTL is two of them), and the last millisecond
\* at which an entry stored at the start is still fresh in either connector
Instants == { k * cacheExpiry : k \in 0 .. MaxPeriods } \cup {cacheExpiry - 1, cacheTimeout - 1}

----------------------------------------------------------------------------
VARIABLES
    self,       \* the connector object the calls are made on
    now,        \* Date.now()
    cache,      \* this.cache : key -> [data, timestamp]
    call,       \* the pending and the settled calls
    at,         \* position of the page script (demo.js)
    responseJson,      \* data = await response.json() of loadRealData
    currentIndicator,  \* the indicator of the loop of loadRealData
    documents,         \* what formatEurostatData returned
    liveDocuments,     \* the documents of the last load
    filteredResults,   \* the documents that pass the filters
    currentFilters,    \* the filters in force
    currentPage,       \* the page of the result table
    tbody,             \* the documents whose rows are in the result table
    resultStats,       \* the text of #result-stats
    pageInfo,          \* the text of #page-info
    success,           \* what loadRealData returned
    notification,      \* the last notification shown
    isRealDataLoaded,  \* the flag of the Pauhu Stack script
    dataSourceIndicator, \* the text of #data-source-indicator
    running,           \* the load function whose requests are followed
    requests,          \* the calls of fetch so far, in their order
    inFlight,          \* the requests whose response has not arrived
    eurostatResults,   \* const eurostatResults of loadRealData
    oecdResults,       \* const oecdResults of loadRealData
    allResults,        \* const allResults of fetchOECDData
    workerResults,     \* const results of the worker's fetchEurostatData
    returned           \* what the load function resolved to

\* the load of the page script
loadVars == <<at, responseJson, currentIndicator, documents>>

\* the result table of the page script
tableVars == <<liveDocuments, filteredResults, currentFilters, currentPage,
               tbody, resultStats, pageInfo>>

\* what the page tells about the source of its documents
reportVars == <<success, notification, isRealDataLoaded, dataSourceIndicator>>

\* the requests of one load and what it has collected
cycleVars == <<running, requests, inFlight, eurostatResults, oecdResults,
               allResults, workerResults, returned>>

\* the state of the page script
pageVars == <<loadVars, tableVars, reportVars, cycleVars>>

vars == <<self, now, cache, call, pageVars>>

EmptyMap == [k \in {} |-> [data |-> NoBody, timestamp |-> 0]]

NoResponse == [status |-> "none", body |-> NoBody]

\* pc    : idle, fetching (Eurostat request out), direct (OECD.Stat request
\*         out), compass (fallback request out), done (promise settled)
\* resp  : the response that settled the call
\* site  : the source line at which the cache method returned or threw
\* kind, value : how the promise of the called method settled
\* nreq  : number of requests the call has issued
IdleCall == [pc |-> "idle", fn |-> "none", arg |-> "none", key |-> <<"none", "none">>,
             resp |-> NoResponse, site |-> "none", kind |-> "none",
             value |-> NoBody, nreq |-> 0]

\* no settled promise waits for its continuation
Quiet == \A c \in Calls : call[c].pc # "done"

\* `${dataset}_${JSON.stringify(options)}`
cacheKey(dataset, options) == <<dataset, options>>

\* this.cache.set(cacheKey, { data, timestamp: Date.now() })
CacheSet(m, key, data, t) ==
    [k \in DOMAIN m \cup {key} |->
        IF k = key THEN [data |-> data, timestamp |-> t] ELSE m[k]]

\* call c settles with outcome o after response r
Settle(c, r, o) ==
    [call EXCEPT ![c].pc = "done", ![c].resp = r, ![c].site = o.site,
                 ![c].kind = o.kind, ![c].value = o.value]

----------------------------------------------------------------------------
(* EurostatAPIConnector *)

\* mutation: the cache check never answers
IsFreshNever(cached, t) == FALSE

\* mutation: an entry exactly as old as the TTL still counts as fresh
IsFreshInclusive(cached, t) == t - cached.timestamp <= cacheExpiry

\* Date.now() - cached.timestamp < this.cacheExpiry
IsFresh(cached, t) == t - cached.timestamp < cacheExpiry

\* mutation: the cache check is skipped and every call sends a request
CacheHitSkipped(m, key, t) == FALSE

\* the cache check at the head of fetchEurostatData: TRUE when the call is
\* answered from the cache without a request
CacheHit(m, key, t) == key \in DOMAIN m /\ IsFresh(m[key], t)

\* mutation: the catch block rethrows without looking at the cache
FetchCatchNoFallback(m, key, err) ==
    [site |-> "L92", kind |-> "throw", value |-> [error |-> err]]

\* mutation: without an entry the catch block returns an empty object
FetchCatchSwallow(m, key, err) ==
    IF key \in DOMAIN m
    THEN [site |-> "L89", kind |-> "return", value |-> m[key].data]
    ELSE [site |-> "L92", kind |-> "return", value |-> NoBody]

\* the catch block of fetchEurostatData: what the call hands to its caller
\* when the request failed with `err`
FetchCatch(m, key, err) ==
    IF key \in DOMAIN m
    THEN [site |-> "L89", kind |-> "return", value |-> m[key].data]
    ELSE [site |-> "L92", kind |-> "throw", value |-> [error |-> err]]

\* mutation: the catch block evicts the entry it has served
CacheAfterCatchEvict(m, key) == [k \in DOMAIN m \ {key} |-> m[k]]

\* the cache after the catch block of fetchEurostatData ran: it only reads
CacheAfterCatch(m, key) == m

\* the try block of fetchEurostatData after a 2xx response whose body parsed
FetchOk(data) == [site |-> "L81", kind |-> "return", value |-> data]

\* the cache after a 2xx response whose body parsed: stored unconditionally
CacheAfterOk(m, key, data, t) == CacheSet(m, key, data, t)

\* indicatorMap[indicator]: a listed code maps to itself, a name inherited
\* from Object.prototype yields that (truthy) function, anything else is
\* undefined
eurostatCode(indicator) ==
    IF indicator \in indicatorMap THEN indicator
    ELSE IF indicator \in ObjectPrototypeProps THEN "function " \o indicator
    ELSE "undefined"

\* !eurostatCode
UnknownIndicator(indicator) == eurostatCode(indicator) = "undefined"

\* processCircularEconomyData(eurostatData, indicator)
processCircularEconomyData(eurostatData, indicator) ==
    [indicator |-> indicator,
     source    |-> "Eurostat API",
     values    |-> IF "value" \in DOMAIN eurostatData THEN eurostatData.value ELSE 0]

\* what a settled fetchEurostatData means for the method that awaited it:
\* getCircularEconomyData processes the data or wraps the error
Outcome(fn, arg, o) ==
    IF fn = "getCircularEconomyData"
    THEN IF o.kind = "throw"
         THEN [site |-> o.site, kind |-> "throw",
               value |-> [error |-> "Eurostat API error"]]
         ELSE [site |-> o.site, kind |-> "return",
               value |-> processCircularEconomyData(o.value, arg)]
    ELSE o

\* fetchEurostatData(dataset, options) is called
FetchEurostatData(c, dataset, options) ==
    /\ self = "EurostatAPIConnector"
    /\ Quiet
    /\ call[c].pc = "idle"
    /\ LET key == cacheKey(dataset, options)
           started == [call EXCEPT ![c].fn = "fetchEurostatData",
                                   ![c].arg = dataset, ![c].key = key]
       IN  IF CacheHit(cache, key, now)
           THEN call' = [started EXCEPT ![c].pc = "done", ![c].site = "L45",
                            ![c].kind = "return", ![c].value = cache[key].data]
           ELSE call' = [started EXCEPT ![c].pc = "fetching", ![c].nreq = 1]
    /\ UNCHANGED <<pageVars, self, now, cache>>

\* getCircularEconomyData(indicator, options) is called
GetCircularEconomyData(c, indicator, options) ==
    /\ self = "EurostatAPIConnector"
    /\ Quiet
    /\ call[c].pc = "idle"
    /\ LET key == cacheKey(eurostatCode(indicator), options)
           started == [call EXCEPT ![c].fn = "getCircularEconomyData",
                                   ![c].arg = indicator]
           hit == Outcome("getCircularEconomyData", indicator,
                      [site |-> "L45", kind |-> "return", value |-> cache[key].data])
       IN  IF UnknownIndicator(indicator)
           THEN call' = [started EXCEPT ![c].pc = "done", ![c].site = "L24",
                            ![c].kind = "throw",
                            ![c].value = [error |-> "Unknown indicator"]]
           ELSE IF CacheHit(cache, key, now)
           THEN call' = [started EXCEPT ![c].pc = "done", ![c].key = key,
                            ![c].site = hit.site, ![c].kind = hit.kind,
                            ![c].value = hit.value]
           ELSE call' = [started EXCEPT ![c].pc = "fetching", ![c].key = key,
                            ![c].nreq = 1]
    /\ UNCHANGED <<pageVars, self, now, cache>>

\* the request of call c is answered 2xx with a body that parses as JSON
ResponseOk(c, data) ==
    /\ Quiet
    /\ call[c].pc = "fetching"
    /\ cache' = CacheAfterOk(cache, call[c].key, data, now)
    /\ call' = Settle(c, [status |-> "ok", body |-> data],
                      Outcome(call[c].fn, call[c].arg, FetchOk(data)))
    /\ UNCHANGED <<pageVars, self, now>>

\* the request of call c fails
ResponseFail(c, err) ==
    /\ Quiet
    /\ call[c].pc = "fetching"
    /\ cache' = CacheAfterCatch(cache, call[c].key)
    /\ call' = Settle(c, [status |-> err, body |-> NoBody],
                      Outcome(call[c].fn, call[c].arg,
                              FetchCatch(cache, call[c].key, err)))
    /\ UNCHANGED <<pageVars, self, now>>

\* clearCache()
ClearCache ==
    /\ self = "EurostatAPIConnector"
    /\ Quiet
    /\ cache # EmptyMap
    /\ cache' = EmptyMap
    /\ UNCHANGED <<pageVars, self, now, call>>

----------------------------------------------------------------------------
(* OECDEnvironmentalConnector *)

\* keys of this.apiEndpoints
apiEndpoints == {"MUNW", "MATERIAL_RESOURCES", "GREEN_GROWTH", "WASTE_TREAT",
                 "CIRCULAR_ECONOMY", "RECYCLING"}

\* this.apiEndpoints[dataset]: as for indicatorMap, names inherited from
\* Object.prototype are found too
datasetCode(dataset) ==
    IF dataset \in apiEndpoints THEN (IF dataset = "CIRCULAR_ECONOMY" THEN "CE" ELSE dataset)
    ELSE IF dataset \in ObjectPrototypeProps THEN "function " \o dataset
    ELSE "undefined"

\* Date.now() - cached.timestamp < this.cacheTimeout
OecdIsFresh(cached, t) == t - cached.timestamp < cacheTimeout

\* the cache check at the head of getEnvironmentalData
OecdCacheHit(m, key, t) == key \in DOMAIN m /\ OecdIsFresh(m[key], t)

\* parseOECDStatResponse(rawData, dataset)
parseOECDStatResponse(rawData, dataset, t) ==
    IF rawData.dataSets = 0
    THEN [error |-> "No data available"]
    ELSE [dataset |-> dataset, source |-> "oecd_stat", lastUpdated |-> t,
          data |-> rawData.observations]

\* !data || data.error
Failed(data) == "null" \in DOMAIN data \/ "error" \in DOMAIN data

\* the tail of getEnvironmentalData: `data` is cached unless it is falsy or
\* has an error field
OecdCacheAfter(m, key, data, t) ==
    IF ~Failed(data) THEN CacheSet(m, key, data, t) ELSE m

\* return data
OecdReturn(m, key, data) == [site |-> "L55", kind |-> "return", value |-> data]

\* getEnvironmentalData(dataset, filters) is called: cache check, then
\* fetchFromOECD, which sends the request only for a dataset it knows and
\* otherwise reports an error that makes the caller turn to the fallback
GetEnvironmentalData(c, dataset, filters) ==
    /\ self = "OECDEnvironmentalConnector"
    /\ Quiet
    /\ call[c].pc = "idle"
    /\ LET key == cacheKey(dataset, filters)
           started == [call EXCEPT ![c].fn = "getEnvironmentalData",
                                   ![c].arg = dataset, ![c].key = key]
       IN  IF OecdCacheHit(cache, key, now)
           THEN call' = [started EXCEPT ![c].pc = "done", ![c].site = "L31",
                            ![c].kind = "return", ![c].value = cache[key].data]
           ELSE IF datasetCode(dataset) = "undefined"
           THEN call' = [started EXCEPT ![c].pc = "compass", ![c].nreq = 1]
           ELSE call' = [started EXCEPT ![c].pc = "direct", ![c].nreq = 1]
    /\ UNCHANGED <<pageVars, self, now, cache>>

\* OECD.Stat answers 2xx with a JSON body: fetchFromOECD parses it; parsed
\* data is cached and returned, a parse error sends the fallback request
DirectOk(c, rawData) ==
    /\ Quiet
    /\ call[c].pc = "direct"
    /\ LET data == parseOECDStatResponse(rawData, call[c].arg, now)
           r == [status |-> "ok", body |-> rawData]
       IN  IF Failed(data)
           THEN /\ call' = [call EXCEPT ![c].pc = "compass", ![c].nreq = @ + 1]
                /\ UNCHANGED cache
           ELSE /\ cache' = OecdCacheAfter(cache, call[c].key, data, now)
                /\ call' = Settle(c, r, OecdReturn(cache, call[c].key, data))
    /\ UNCHANGED <<pageVars, self, now>>

\* the OECD.Stat request fails: fetchFromOECD returns { error } and
\* getEnvironmentalData sends the fallback request
DirectFail(c, err) ==
    /\ Quiet
    /\ call[c].pc = "direct"
    /\ call' = [call EXCEPT ![c].pc = "compass", ![c].nreq = @ + 1]
    /\ UNCHANGED <<pageVars, self, now, cache>>

\* the fallback answers 2xx with a JSON body
CompassOk(c, data) ==
    /\ Quiet
    /\ call[c].pc = "compass"
    /\ cache' = OecdCacheAfter(cache, call[c].key, data, now)
    /\ call' = Settle(c, [status |-> "ok", body |-> data],
                      OecdReturn(cache, call[c].key, data))
    /\ UNCHANGED <<pageVars, self, now>>

\* the fallback request fails: fetchFromCompass returns { error }
CompassFail(c, err) ==
    /\ Quiet
    /\ call[c].pc = "compass"
    /\ cache' = OecdCacheAfter(cache, call[c].key, [error |-> err], now)
    /\ call' = Settle(c, [status |-> err, body |-> NoBody],
                      OecdReturn(cache, call[c].key, [error |-> err]))
    /\ UNCHANGED <<pageVars, self, now>>

----------------------------------------------------------------------------
(* Callers and the clock *)

\* the continuation of the caller runs: it takes the result of the call
Collect(c) ==
    /\ call[c].pc = "done"
    /\ call' = [call EXCEPT ![c] = IdleCall]
    /\ UNCHANGED <<pageVars, self, now, cache>>

\* time passes
Tick ==
    /\ Quiet
    /\ \E t \in Instants : t > now /\ now' = t
    /\ UNCHANGED <<pageVars, self, cache, call>>

----------------------------------------------------------------------------
\* the result table has not been filled
TableNotShown ==
    /\ liveDocuments = <<>>
    /\ filteredResults = <<>>
    /\ currentFilters = [none |-> TRUE]
    /\ currentPage = 1
    /\ tbody = <<>>
    /\ resultStats = [none |-> TRUE]
    /\ pageInfo = [none |-> TRUE]

\* nothing has been told about the source of the documents
NothingReported ==
    /\ success = FALSE
    /\ notification = [type |-> "info", message |-> "Loading"]
    /\ isRealDataLoaded = FALSE
    /\ dataSourceIndicator = "none"

\* the value of `returned` while the load function has not resolved
NotReturned == [pending |-> TRUE]

\* no load function is followed request by request
NoCycle ==
    /\ running = "none"
    /\ requests = <<>>
    /\ inFlight = {}
    /\ eurostatResults = <<>>
    /\ oecdResults = <<>>
    /\ allResults = <<>>
    /\ workerResults = <<>>
    /\ returned = NotReturned

\* the page script has not run
PageNotLoaded ==
    /\ at = "none"
    /\ responseJson = NoBody
    /\ currentIndicator = "none"
    /\ documents = <<>>
    /\ TableNotShown
    /\ NothingReported
    /\ NoCycle

Init ==
    /\ self \in Connectors
    /\ now = 0
    /\ cache = EmptyMap
    /\ call = [c \in Calls |-> IdleCall]
    /\ PageNotLoaded

\* the fetch caches of the two connectors
Next ==
    \/ \E c \in Calls, d \in Datasets, o \in OptionSet : FetchEurostatData(c, d, o)
    \/ \E c \in Calls, b \in Bodies : ResponseOk(c, b)
    \/ \E c \in Calls, e \in Failures : ResponseFail(c, e)
    \/ ClearCache
    \/ \E c \in Calls, d \in OecdDatasets, f \in OptionSet : GetEnvironmentalData(c, d, f)
    \/ \E c \in Calls, b \in OecdBodies : DirectOk(c, b)
    \/ \E c \in Calls, e \in Failures : DirectFail(c, e)
    \/ \E c \in Calls, b \in CompassBodies : CompassOk(c, b)
    \/ \E c \in Calls, e \in Failures : CompassFail(c, e)
    \/ \E c \in Calls : Collect(c)
    \/ Tick

Spec == Init /\ [][Next]_vars

\* getCircularEconomyData on the Eurostat connector
InitCircular == Init /\ self = "EurostatAPIConnector"

NextCircular ==
    \/ \E c \in Calls, i \in Indicators, o \in OptionSet : GetCircularEconomyData(c, i, o)
    \/ \E c \in Calls, b \in Bodies : ResponseOk(c, b)
    \/ \E c \in Calls, e \in Failures : ResponseFail(c, e)
    \/ ClearCache
    \/ \E c \in Calls : Collect(c)
    \/ Tick

SpecCircular == InitCircular /\ [][NextCircular]_vars

----------------------------------------------------------------------------
(* formatEurostatData (demo.js): Eurostat SDMX-JSON -> documents            *)
(*                                                                         *)
(* An observation value v is held in hundredths:                           *)
(* [type |-> "number", c |-> 45] is the JSON number 0.45.                  *)

\* geo codes of the payloads, in the order of their category index
GeoCodes == <<"FI", "DE", "SE", "XK">>

\* time labels of the payloads: years before, at and after the cutoff, and a
\* quarter of a year before it and of one after it
TimeLabels == <<"2017", "2017-Q4", "2018", "2023", "2023-Q1">>

\* const indicators = ['cei_srm030', 'cei_wm011', 'cei_pc020', 'cei_cie011']
indicators == {"cei_srm030", "cei_wm011", "cei_pc020", "cei_cie011"}

\* const indicatorNames = { ... }
indicatorNames ==
    [i \in indicators |->
        CASE i = "cei_srm030" -> "Circular Material Use Rate"
          [] i = "cei_wm011"  -> "Municipal Waste Recycling"
          [] i = "cei_pc020"  -> "Material Footprint"
          [] i = "cei_cie011" -> "Circular Economy Employment"]

\* const countryMap = { ... }  (the entries of the codes in GeoCodes)
countryMap(geoCode) ==
    CASE geoCode = "FI" -> "Finland"
      [] geoCode = "DE" -> "Germany"
      [] geoCode = "SE" -> "Sweden"
      [] geoCode = "EU27_2020" -> "EU27"
      [] OTHER -> geoCode

\* JSON values of an observation
Num(c) == [type |-> "number", c |-> c]

NullValue == [type |-> "null", c |-> 0]

\* the string ":" (Eurostat's mark of a missing value); Number(":") is NaN
ColonString == [type |-> "string", c |-> 0]

\* numbers as parseInt and % return them
NaN == [nan |-> TRUE, n |-> 0]

Number(n) == [nan |-> FALSE, n |-> n]

DigitValue ==
    ("0" :> 0) @@ ("1" :> 1) @@ ("2" :> 2) @@ ("3" :> 3) @@ ("4" :> 4) @@
    ("5" :> 5) @@ ("6" :> 6) @@ ("7" :> 7) @@ ("8" :> 8) @@ ("9" :> 9)

RECURSIVE parseDigits(_, _, _)
parseDigits(s, i, acc) ==
    IF i > Len(s) \/ SubSeq(s, i, i) \notin DOMAIN DigitValue
    THEN acc
    ELSE parseDigits(s, i + 1, acc * 10 + DigitValue[SubSeq(s, i, i)])

\* parseInt(s) of a string without sign or leading blanks: the number its
\* leading digits spell, NaN when it starts with no digit
parseInt(s) ==
    IF Len(s) = 0 \/ SubSeq(s, 1, 1) \notin DOMAIN DigitValue
    THEN NaN
    ELSE Number(parseDigits(s, 1, 0))

\* a % b of JavaScript for a >= 0
Remainder(a, b) == IF a.nan \/ b = 0 THEN NaN ELSE Number(a.n % b)

\* Math.floor(a / b) for a >= 0
FloorDiv(a, b) == IF a.nan \/ b = 0 THEN NaN ELSE Number(a.n \div b)

\* the rows of a G x T table in row-major order, time varying fastest
RECURSIVE Rows(_, _, _)
Rows(g, G, T) ==
    IF g >= G THEN <<>>
    ELSE [t \in 1 .. T |-> <<g, t - 1>>] \o Rows(g + 1, G, T)

\* the observation the encoded tables hold for geo g and time t
Observed(g, t) == Num(41 + 20 * g + 5 * t)

\* the geo category index of a payload with G countries
GeoList(G) ==
    [i \in 1 .. G |-> IF i <= Len(GeoCodes) THEN GeoCodes[i] ELSE "X" \o ToString(i)]

\* the time category indexes of the payloads: up to MaxTime different labels
\* in the order of their periods
TimeLists ==
    UNION { { [i \in 1 .. T |-> TimeLabels[pick[i]]] :
                pick \in { p \in [1 .. T -> DOMAIN TimeLabels] :
                             \A i, j \in 1 .. T : i < j => p[i] < p[j] } } :
            T \in 1 .. MaxTime }

\* one observation of a payload is left as it is (hole = 0), or it is null,
\* or the string ":", or it is missing from data.value
Holes(n) == {<<0, "none">>} \cup ((1 .. n) \X {"null", "string", "absent"})

\* Object.entries(data.value) of a G x T table encoded row-major, time
\* varying fastest.  A key is the list of numbers it spells: <<L>> for the
\* linear key "L", <<f, u, g, t>> for the colon-delimited key "f:u:g:t".
Entries(G, T, colon, hole, kind) ==
    LET rows == Rows(0, G, T)
        all == [i \in 1 .. Len(rows) |->
                 [key |-> IF colon
                          THEN <<0, 0, rows[i][1], rows[i][2]>>
                          ELSE <<rows[i][1] * T + rows[i][2]>>,
                  val |-> CASE i = hole /\ kind = "null" -> NullValue
                            [] i = hole /\ kind = "string" -> ColonString
                            [] OTHER -> Observed(rows[i][1], rows[i][2])]]
    IN  IF hole > 0 /\ kind = "absent"
        THEN SubSeq(all, 1, hole - 1) \o SubSeq(all, hole + 1, Len(all))
        ELSE all

\* data.dimension, with or without its `size` property
Dimension(geo, time, sized) ==
    IF sized
    THEN [geo |-> geo, time |-> time, size |-> <<1, 1, Len(geo), Len(time)>>]
    ELSE [geo |-> geo, time |-> time]

\* a 2xx body of the proxy that is no SDMX-JSON
InvalidPayload == [error |-> "Not Found"]

\* the bodies handed to formatEurostatData: tables of up to maxGeo countries
Payloads(maxGeo) ==
    {InvalidPayload} \cup
    UNION { UNION { { [value |-> Entries(G, Len(time), colon, h[1], h[2]),
                       dimension |-> Dimension(GeoList(G), time, sized)] :
                        sized \in BOOLEAN, colon \in BOOLEAN,
                        h \in Holes(G * Len(time)) } :
                    time \in TimeLists } :
            G \in 1 .. maxGeo }

\* const dimSize = data.dimension.size || [1, 1, geos, time periods]
dimSize(d) ==
    IF "size" \in DOMAIN d.dimension
    THEN d.dimension.size
    ELSE <<1, 1, Len(d.dimension.geo), Len(d.dimension.time)>>

\* geoIdx: indices[2] || 0 of a colon-delimited key, else
\* Math.floor(linearIdx / dimSize[3]) % dimSize[2]
geoIdx(d, obsKey) ==
    IF Len(obsKey) > 1
    THEN Number(IF Len(obsKey) >= 3 THEN obsKey[3] ELSE 0)
    ELSE Remainder(FloorDiv(Number(obsKey[1]), dimSize(d)[4]), dimSize(d)[3])

\* mutation: the linear index is reduced by the size of the geo dimension
timeIdxByGeoSize(d, obsKey) ==
    IF Len(obsKey) > 1
    THEN Number(IF Len(obsKey) >= 4 THEN obsKey[4] ELSE 0)
    ELSE Remainder(Number(obsKey[1]), dimSize(d)[3])

\* timeIdx: indices[3] || 0 of a colon-delimited key, else
\* linearIdx % dimSize[3]
timeIdx(d, obsKey) ==
    IF Len(obsKey) > 1
    THEN Number(IF Len(obsKey) >= 4 THEN obsKey[4] ELSE 0)
    ELSE Remainder(Number(obsKey[1]), dimSize(d)[4])

\* reverseMap[idx] || fallback, for the category index `list`
ReverseLookup(list, idx, fallback) ==
    IF ~idx.nan /\ idx.n + 1 \in DOMAIN list THEN list[idx.n + 1] ELSE fallback

\* mutation: the cutoff lies one year earlier
BeforeCutoffLax(yearNum) == ~yearNum.nan /\ yearNum.n < 2017

\* yearNum < 2018  (false for NaN)
BeforeCutoff(yearNum) == ~yearNum.nan /\ yearNum.n < 2018

\* haystack.includes(needle) of two strings
includes(haystack, needle) ==
    \E i \in 1 .. Len(haystack) - Len(needle) + 1 :
        SubSeq(haystack, i, i + Len(needle) - 1) = needle

\* the topic the indicator code selects (lines 195-199)
topicOf(ind) ==
    CASE includes(ind, "srm") -> "material"
      [] ~includes(ind, "srm") /\ includes(ind, "wm") -> "waste"
      [] ~includes(ind, "srm") /\ ~includes(ind, "wm") /\ includes(ind, "pc") -> "footprint"
      [] ~includes(ind, "srm") /\ ~includes(ind, "wm") /\ ~includes(ind, "pc")
         /\ includes(ind, "cie") -> "employment"
      [] OTHER -> "circular-economy"

\* x.toFixed(digits) + unit, where n is x scaled by 10^digits and rounded
Fixed(n, digits, unit) ==
    LET scale == IF digits = 1 THEN 10 ELSE 100
        frac == n % scale
    IN  [throws |-> FALSE,
         text |-> ToString(n \div scale) \o "."
                  \o (IF digits = 2 /\ frac < 10 THEN "0" ELSE "") \o ToString(frac)
                  \o unit]

\* NaN.toFixed(1) + unit
NaNText(unit) == [throws |-> FALSE, text |-> "NaN" \o unit]

\* x.toFixed is not a function when x is a string
TypeError == [throws |-> TRUE, text |-> ""]

\* formattedValue (lines 202-209)
formattedValue(ind, obsValue) ==
    IF ind \in {"cei_srm030", "cei_wm011", "cei_cie011"}
    THEN IF obsValue.type = "number"
         THEN Fixed(obsValue.c * 10, 1, "%")
         ELSE NaNText("%")
    ELSE IF obsValue.type # "number"
         THEN TypeError
         ELSE IF ind = "cei_pc020"
              THEN Fixed((obsValue.c + 5) \div 10, 1, " tonnes")
              ELSE Fixed(obsValue.c, 2, "")

NoDocument == [none |-> TRUE]

\* the callback of Object.entries(data.value).forEach (lines 158-226)
Observation(d, ind, entry) ==
    LET obsValue == entry.val
        geoCode == ReverseLookup(d.dimension.geo, geoIdx(d, entry.key), "EU27_2020")
        year == ReverseLookup(d.dimension.time, timeIdx(d, entry.key), "2023")
        yearNum == parseInt(year)
        countryName == countryMap(geoCode)
        formatted == formattedValue(ind, obsValue)
    IN  IF obsValue.type = "null" THEN [kind |-> "skip", doc |-> NoDocument]
        ELSE IF BeforeCutoff(yearNum) THEN [kind |-> "skip", doc |-> NoDocument]
        ELSE IF formatted.throws THEN [kind |-> "throw", doc |-> NoDocument]
        ELSE [kind |-> "push",
              doc |-> [date |-> year \o "-06-15",
                       country |-> geoCode,
                       countryName |-> countryName,
                       type |-> "statistic",
                       typeName |-> "Eurostat Data",
                       topic |-> topicOf(ind),
                       topicName |-> IF ind \in DOMAIN indicatorNames
                                     THEN indicatorNames[ind] ELSE ind,
                       title |-> countryName \o " (" \o year \o "): "
                                 \o (IF ind \in DOMAIN indicatorNames
                                     THEN indicatorNames[ind] ELSE "undefined")
                                 \o " " \o formatted.text,
                       compliance |-> IF obsValue.type = "number" /\ obsValue.c > 50
                                      THEN "compliant" ELSE "pending",
                       sector |-> "circular-economy",
                       source |-> "Eurostat"]]

\* the forEach loop inside the try block: an exception thrown by the
\* callback ends the loop and the documents pushed so far are returned
RECURSIVE forEachObservation(_, _, _, _)
forEachObservation(d, ind, entries, docs) ==
    IF entries = <<>> THEN docs
    ELSE LET r == Observation(d, ind, Head(entries))
         IN  IF r.kind = "throw" THEN docs
             ELSE forEachObservation(d, ind, Tail(entries),
                      IF r.kind = "push" THEN Append(docs, r.doc) ELSE docs)

\* formatEurostatData(data, indicator)
formatEurostatData(d, ind) ==
    IF "value" \notin DOMAIN d \/ "dimension" \notin DOMAIN d
    THEN <<>>
    ELSE forEachObservation(d, ind, d.value, <<>>)

\* the connectors are not part of the page script of demo.js lines 1-677
NoConnector ==
    /\ self = "none"
    /\ now = 0
    /\ cache = EmptyMap
    /\ call = [c \in Calls |-> IdleCall]

\* const formatted = formatEurostatData(data, indicator)  (line 48)
FormatEurostatData ==
    /\ at = "response"
    /\ currentIndicator \in indicators
    /\ documents' = formatEurostatData(responseJson, currentIndicator)
    /\ at' = "formatted"
    /\ UNCHANGED <<self, now, cache, call, cycleVars, responseJson, currentIndicator,
                   tableVars, reportVars>>

\* a 2xx response of the proxy for one of the indicators has been parsed
InitFormat ==
    /\ NoConnector
    /\ at = "response"
    /\ currentIndicator \in indicators
    /\ responseJson \in Payloads(MaxGeo)
    /\ documents = <<>>
    /\ TableNotShown
    /\ NothingReported
    /\ NoCycle

NextFormat == FormatEurostatData

SpecFormat == InitFormat /\ [][NextFormat]_vars

----------------------------------------------------------------------------
(* Filter and page window of the result table (demo.js)                    *)

\* const resultsPerPage = 10
resultsPerPage == 10

\* the printable ASCII characters in the order of their codes: 32 .. 95
\* and 97 .. 126
AsciiTo95 ==
    " !\"#$%&'()*+,-./0123456789:;<=>?@ABCDEFGHIJKLMNOPQRSTUVWXYZ[\\]^_"

AsciiFrom97 == "abcdefghijklmnopqrstuvwxyz{|}~"

\* the code unit of a character
CharCode ==
    [ch \in { SubSeq(AsciiTo95, i, i) : i \in 1 .. Len(AsciiTo95) } |->
        31 + CHOOSE i \in 1 .. Len(AsciiTo95) : SubSeq(AsciiTo95, i, i) = ch]
    @@
    [ch \in { SubSeq(AsciiFrom97, i, i) : i \in 1 .. Len(AsciiFrom97) } |->
        96 + CHOOSE i \in 1 .. Len(AsciiFrom97) : SubSeq(AsciiFrom97, i, i) = ch]

\* a < b of two strings: the comparison of the code units at the first place
\* where they differ, a proper prefix being the smaller
RECURSIVE LessFrom(_, _, _)
LessFrom(a, b, i) ==
    IF i > Len(b) THEN FALSE
    ELSE IF i > Len(a) THEN TRUE
    ELSE IF SubSeq(a, i, i) = SubSeq(b, i, i) THEN LessFrom(a, b, i + 1)
    ELSE CharCode[SubSeq(a, i, i)] < CharCode[SubSeq(b, i, i)]

StringLess(a, b) == LessFrom(a, b, 1)

\* the lower-case letter of every upper-case letter
LowerOf == [ch \in { SubSeq(AsciiTo95, i, i) : i \in 34 .. 59 } |->
               SubSeq(AsciiFrom97, CharCode[ch] - 64, CharCode[ch] - 64)]

\* s.toLowerCase(): the characters i .. j of s in lower case, half by half
RECURSIVE LowerFrom(_, _, _)
LowerFrom(s, i, j) ==
    IF i > j THEN ""
    ELSE IF i = j
    THEN LET ch == SubSeq(s, i, i)
         IN  IF ch \in DOMAIN LowerOf THEN LowerOf[ch] ELSE ch
    ELSE LET m == (i + j) \div 2
         IN  LowerFrom(s, i, m) \o LowerFrom(s, m + 1, j)

toLowerCase(s) == LowerFrom(s, 1, Len(s))

\* s.trim(), blanks being the white space of the texts
RECURSIVE trim(_)
trim(s) ==
    IF Len(s) = 0 THEN s
    ELSE IF SubSeq(s, 1, 1) = " " THEN trim(SubSeq(s, 2, Len(s)))
    ELSE IF SubSeq(s, Len(s), Len(s)) = " " THEN trim(SubSeq(s, 1, Len(s) - 1))
    ELSE s

\* array.includes(x)
arrayIncludes(array, x) == \E i \in DOMAIN array : array[i] = x

\* array.join(' ')
RECURSIVE join(_)
join(array) ==
    IF Len(array) = 0 THEN ""
    ELSE IF Len(array) = 1 THEN array[1]
    ELSE array[1] \o " " \o join(Tail(array))

\* let currentFilters = { ... }  (lines 15-25)
InitialFilters ==
    [dateFrom |-> "2018-01-01", dateTo |-> "2023-12-31",
     countries |-> <<"all">>, docTypes |-> <<"all">>, topics |-> <<"all">>,
     sectors |-> <<"all">>, language |-> "en", compliance |-> "all", search |-> ""]

\* the sample documents of the DOMContentLoaded handler (lines 623-629)
SampleDocument(country, countryName, topic, topicName, title, value, ind) ==
    [date |-> "2023-06-15", country |-> country, countryName |-> countryName,
     type |-> "statistic", typeName |-> "Eurostat Data", topic |-> topic,
     topicName |-> topicName, title |-> title, compliance |-> "compliant",
     sector |-> "circular-economy", source |-> "Eurostat", value |-> value,
     indicator |-> ind]

\* `value` holds the text String(doc.value) of the number
SampleDocuments ==
    << SampleDocument("FI", "Finland", "material", "Circular Material Use",
                      "Finland (2023): Circular Material Use 12.8%", "0.128", "cei_srm030"),
       SampleDocument("DE", "Germany", "material", "Circular Material Use",
                      "Germany (2023): Circular Material Use 11.5%", "0.115", "cei_srm030"),
       SampleDocument("NL", "Netherlands", "material", "Circular Material Use",
                      "Netherlands (2023): Circular Material Use 25.5%", "0.255", "cei_srm030"),
       SampleDocument("FR", "France", "waste", "Waste Management & Recycling",
                      "France (2023): Municipal Waste Recycling 52%", "0.52", "cei_wm011"),
       SampleDocument("SE", "Sweden", "waste", "Waste Management & Recycling",
                      "Sweden (2023): Municipal Waste Recycling 60%", "0.6", "cei_wm011") >>

\* a payload of three countries and the years 2018, 2023 and 2024
TablePayload ==
    [value |-> Entries(3, 3, FALSE, 0, "none"),
     dimension |-> Dimension(GeoList(3), <<"2018", "2023", "2024">>, TRUE)]

\* eurostatResults of a load in which every indicator answered TablePayload
ApiDocuments ==
    formatEurostatData(TablePayload, "cei_srm030")
    \o formatEurostatData(TablePayload, "cei_wm011")
    \o formatEurostatData(TablePayload, "cei_pc020")
    \o formatEurostatData(TablePayload, "cei_cie011")

\* liveDocuments after a load: the first n documents the APIs gave, n >= 1,
\* or the sample documents
DocumentLists ==
    {SampleDocuments} \cup { SubSeq(ApiDocuments, 1, n) : n \in 1 .. MaxDocs }

\* the texts typed into the search box
SearchTexts == {"", "FIN", "0.128", " "}

\* the values resetFilters gives the filters and the form (lines 531-546)
ResetValues ==
    [dateFrom |-> "2018-01-01", dateTo |-> "2023-12-31",
     countries |-> <<"all">>, docTypes |-> <<"all">>, topics |-> <<"all">>,
     sectors |-> <<"all">>, compliance |-> "all", search |-> ""]

\* values the filter form can hold when Apply is clicked: the form after a
\* reset and forms that differ from it in one control or in two
FilterForms ==
    LET f == ResetValues
    IN  { f,
          [f EXCEPT !.countries = <<"FI", "DE">>],
          [f EXCEPT !.docTypes = <<"environmental-data">>],
          [f EXCEPT !.topics = <<"waste">>],
          [f EXCEPT !.sectors = <<"circular-economy">>],
          [f EXCEPT !.compliance = "compliant", !.dateFrom = "2023-01-01"],
          [f EXCEPT !.dateTo = "2030-12-31"],
          [f EXCEPT !.countries = <<"FI">>, !.dateTo = "2030-12-31"],
          [f EXCEPT !.countries = <<"FI">>, !.search = "fin"] }

\* doc.a || doc.b || '' for fields a, b the document may lack
FieldOr(doc, a, b) ==
    IF a \in DOMAIN doc /\ doc[a] # "" THEN doc[a]
    ELSE IF b \in DOMAIN doc /\ doc[b] # "" THEN doc[b]
    ELSE ""

\* the text the search term is looked up in (lines 368-374)
searchFields(doc) ==
    toLowerCase(join(<< FieldOr(doc, "title", "title"),
                        FieldOr(doc, "countryName", "country"),
                        FieldOr(doc, "indicator", "indicator"),
                        FieldOr(doc, "topicName", "topic"),
                        FieldOr(doc, "value", "value") >>))

\* mutation: the search term is compared as it was typed
PassesSearchCaseSensitive(doc, f) ==
    (f.search # "" /\ Len(trim(f.search)) > 0)
    => includes(searchFields(doc), f.search)

\* the search test of the filter callback (lines 366-379)
PassesSearch(doc, f) ==
    (f.search # "" /\ Len(trim(f.search)) > 0)
    => includes(searchFields(doc), toLowerCase(f.search))

\* mutation: 'all' is no wildcard
PassesCountryNoWildcard(doc, f) == arrayIncludes(f.countries, doc.country)

\* the country test of the filter callback (lines 341-343)
PassesCountry(doc, f) ==
    arrayIncludes(f.countries, "all") \/ arrayIncludes(f.countries, doc.country)

\* mutation: the date range is not tested
PassesDateAlways(doc, f) == TRUE

\* the date test of the filter callback (lines 336-338)
PassesDate(doc, f) ==
    ~(StringLess(doc.date, f.dateFrom) \/ StringLess(f.dateTo, doc.date))

\* the callback of liveDocuments.filter (lines 334-382)
FilterCallback(doc, f) ==
    /\ PassesDate(doc, f)
    /\ PassesCountry(doc, f)
    /\ arrayIncludes(f.docTypes, "all") \/ arrayIncludes(f.docTypes, doc.type)
    /\ arrayIncludes(f.topics, "all") \/ arrayIncludes(f.topics, doc.topic)
    /\ arrayIncludes(f.sectors, "all") \/ arrayIncludes(f.sectors, doc.sector)
    /\ f.compliance = "all" \/ doc.compliance = f.compliance
    /\ PassesSearch(doc, f)

\* liveDocuments.filter(...)
Filtered(docs, f) ==
    LET Test(doc) == FilterCallback(doc, f) IN SelectSeq(docs, Test)

\* the text of the page before updateStats has written one
NoStats == [none |-> TRUE]

\* the text updateStats writes
StatsText(results) ==
    [showing |-> IF Len(results) < resultsPerPage THEN Len(results) ELSE resultsPerPage,
     total |-> Len(results)]

\* Math.ceil(n / resultsPerPage)
TotalPages(n) == (n + resultsPerPage - 1) \div resultsPerPage

\* mutation: the window starts one row late
PageWindowShifted(results, page) ==
    LET startIdx == (page - 1) * resultsPerPage + 1
        endIdx == startIdx + resultsPerPage
    IN  SubSeq(results, startIdx + 1, IF endIdx < Len(results) THEN endIdx ELSE Len(results))

\* filteredResults.slice(startIdx, endIdx)  (lines 394-396)
PageWindow(results, page) ==
    LET startIdx == (page - 1) * resultsPerPage
        endIdx == startIdx + resultsPerPage
    IN  SubSeq(results, startIdx + 1, IF endIdx < Len(results) THEN endIdx ELSE Len(results))

\* filterResults(); updateResults() with the filters f on page 1, as
\* applyFilters, resetFilters and the input listener of the search box run them
FilterAndShow(f) ==
    /\ currentFilters' = f
    /\ currentPage' = 1
    /\ filteredResults' = Filtered(liveDocuments, f)
    /\ resultStats' = StatsText(filteredResults')
    /\ tbody' = PageWindow(filteredResults', 1)
    /\ pageInfo' = [page |-> 1, totalPages |-> TotalPages(Len(filteredResults'))]
    /\ UNCHANGED <<liveDocuments, loadVars, reportVars, self, now, cache, call, cycleVars>>

\* applyFilters(): the form is copied into currentFilters, which keeps its
\* other properties
ApplyFilters(form) ==
    /\ at = "ready"
    /\ FilterAndShow([k \in DOMAIN currentFilters |->
                        IF k \in DOMAIN form THEN form[k] ELSE currentFilters[k]])

\* resetFilters(): currentFilters is replaced by a new object
ResetFilters ==
    /\ at = "ready"
    /\ FilterAndShow(ResetValues)

\* the input listener of the search box (lines 653-659)
SearchInput(text) ==
    /\ at = "ready"
    /\ FilterAndShow([currentFilters EXCEPT !.search = text])

\* mutation: the new page is not tested against the number of pages
ChangePageUnguarded(direction) ==
    /\ at = "ready"
    /\ LET totalPages == TotalPages(Len(filteredResults))
           newPage == currentPage + direction
       IN  IF newPage >= 1
           THEN /\ currentPage' = newPage
                /\ tbody' = PageWindow(filteredResults, newPage)
                /\ pageInfo' = [page |-> newPage, totalPages |-> totalPages]
           ELSE UNCHANGED <<currentPage, tbody, pageInfo>>
    /\ UNCHANGED <<liveDocuments, filteredResults, currentFilters, resultStats>>
    /\ UNCHANGED <<loadVars, reportVars, self, now, cache, call, cycleVars>>

\* changePage(direction)
ChangePage(direction) ==
    /\ at = "ready"
    /\ LET totalPages == TotalPages(Len(filteredResults))
           newPage == currentPage + direction
       IN  IF newPage >= 1 /\ newPage <= totalPages
           THEN /\ currentPage' = newPage
                /\ tbody' = PageWindow(filteredResults, newPage)
                /\ pageInfo' = [page |-> newPage, totalPages |-> totalPages]
           ELSE UNCHANGED <<currentPage, tbody, pageInfo>>
    /\ UNCHANGED <<liveDocuments, filteredResults, currentFilters, resultStats>>
    /\ UNCHANGED <<loadVars, reportVars, self, now, cache, call, cycleVars>>

\* the page after its DOMContentLoaded handler has run: the documents are
\* loaded, all of them are results and the first page is shown
InitFilter ==
    /\ NoConnector
    /\ at = "ready"
    /\ responseJson = NoBody
    /\ currentIndicator = "none"
    /\ documents = <<>>
    /\ liveDocuments \in DocumentLists
    /\ filteredResults = liveDocuments
    /\ currentFilters = InitialFilters
    /\ currentPage = 1
    /\ tbody = PageWindow(filteredResults, 1)
    /\ pageInfo = [page |-> 1, totalPages |-> TotalPages(Len(filteredResults))]
    /\ resultStats = NoStats
    /\ success = (liveDocuments # SampleDocuments)
    /\ notification =
         IF success
         THEN [type |-> "success",
               message |-> "Loaded " \o ToString(Len(liveDocuments))
                           \o " real data points from Eurostat + OECD APIs"]
         ELSE [type |-> "warning", message |-> "Using sample data (API load failed)"]
    /\ isRealDataLoaded = FALSE
    /\ dataSourceIndicator = "none"
    /\ NoCycle

NextFilter ==
    \/ \E form \in FilterForms : ApplyFilters(form)
    \/ ResetFilters
    \/ \E text \in SearchTexts : SearchInput(text)
    \/ \E direction \in {-1, 1} : ChangePage(direction)

SpecFilter == InitFilter /\ [][NextFilter]_vars

----------------------------------------------------------------------------
(* Load of the documents and the report of their source                    *)
(*   loadRealData and its DOMContentLoaded handler   demo.js 1211-1570     *)
(*   initializeRealData and its handler              Pauhu Stack script    *)

\* what loadRealData asks for, in its order: the four Eurostat indicators,
\* then the two OECD datasets
LoadItems == <<"cei_srm030", "cei_wm011", "cei_pc020", "cei_cie011", "MUNW", "WASTE_TREAT">>

\* how one request of loadRealData ends: its answer is formatted into
\* documents, its answer gives no document, the connector throws
LoadOutcomes == {"documents", "none", "throws"}

\* a document formatEurostatData or formatOECDData made of the answer for
\* an item
LoadedDocument(item) ==
    [date |-> "2023-06-15", country |-> "FI", countryName |-> "Finland",
     topicName |-> item,
     source |-> IF item \in indicators THEN "Eurostat" ELSE "OECD"]

\* getSampleData()  (demo.js 1352-1383)
getSampleData ==
    << [date |-> "2025-10-15", country |-> "FI", countryName |-> "Finland",
        type |-> "statistic", typeName |-> "Eurostat Data", topic |-> "material",
        topicName |-> "Circular Material Use Rate",
        title |-> "Finland: Circular Material Use Rate 45.2%",
        compliance |-> "compliant", sector |-> "manufacturing", source |-> "Eurostat"],
       [date |-> "2025-10-10", country |-> "SE", countryName |-> "Sweden",
        type |-> "environmental-data", typeName |-> "OECD Data", topic |-> "waste",
        topicName |-> "Municipal Waste",
        title |-> "Sweden: Municipal Waste Management - 52 kg/capita",
        compliance |-> "compliant", sector |-> "environment", source |-> "OECD"] >>

\* getMockDocuments() of the Pauhu Stack script, cut to its first document
getMockDocuments ==
    << [date |-> "2025-10-15", country |-> "FI", countryName |-> "Finland",
        type |-> "directive", typeName |-> "EU Directive", topic |-> "batteries",
        topicName |-> "Batteries & Electronics",
        title |-> "Battery Directive 2025/1234 - Extended Producer Responsibility",
        compliance |-> "compliant", sector |-> "electronics"] >>

\* what getCircularEconomyInsights resolves to: a response whose data holds
\* n values in all, or the error response, which has no data
InsightsResponses ==
    { [status |-> "ok", data |-> n] : n \in 0 .. 2 }
    \cup { [status |-> "error", error |-> "Failed to fetch"] }

\* an exception inside the try block of initializeRealData
Thrown == [throws |-> "ReferenceError"]

\* transformEurostatToDocuments(data): one document for every value, the
\* mock documents when there is none
transformEurostatToDocuments(n) ==
    IF n > 0
    THEN [i \in 1 .. n |->
            [date |-> "2025-10-22", country |-> "FI", countryName |-> "Finland",
             type |-> "regulation", source |-> "eurostat-api", value |-> i]]
    ELSE getMockDocuments

\* position of the item after `item` in LoadItems
NextItem(item) == 1 + CHOOSE i \in DOMAIN LoadItems : LoadItems[i] = item

\* one turn of the two loops of loadRealData (demo.js 1220-1245)
LoadIteration(outcome) ==
    /\ at = "loadRealData"
    /\ documents' = IF outcome = "documents"
                    THEN Append(documents, LoadedDocument(currentIndicator))
                    ELSE documents
    /\ IF NextItem(currentIndicator) \in DOMAIN LoadItems
       THEN /\ currentIndicator' = LoadItems[NextItem(currentIndicator)]
            /\ at' = at
       ELSE /\ currentIndicator' = "none"
            /\ at' = "combine"
    /\ UNCHANGED <<responseJson, tableVars, reportVars, self, now, cache, call, cycleVars>>

\* return liveDocuments.length > 0  (demo.js 1256)
LoadSucceeded(live) == Len(live) > 0

\* the end of loadRealData (demo.js 1248-1256) and the rest of the
\* DOMContentLoaded handler (demo.js 1552-1569)
CombineAndShow ==
    /\ at = "combine"
    /\ LET live == IF Len(documents) = 0 THEN getSampleData ELSE documents
           ok == LoadSucceeded(live)
       IN  /\ liveDocuments' = live
           /\ success' = ok
           /\ filteredResults' = live
           /\ tbody' = PageWindow(live, 1)
           /\ pageInfo' = [page |-> currentPage, totalPages |-> TotalPages(Len(live))]
           /\ notification' =
                IF ok /\ Len(live) > 0
                THEN [type |-> "success",
                      message |-> "Loaded " \o ToString(Len(live))
                                  \o " real data points from Eurostat + OECD APIs"]
                ELSE [type |-> "warning", message |-> "Using sample data (API load failed)"]
    /\ at' = "shown"
    /\ UNCHANGED <<responseJson, currentIndicator, documents, currentFilters, currentPage,
                   resultStats, isRealDataLoaded, dataSourceIndicator>>
    /\ UNCHANGED <<self, now, cache, call, cycleVars>>

\* initializeRealData() of the Pauhu Stack script after its await
InitializeRealData(response) ==
    /\ at = "initializeRealData"
    /\ IF "throws" \in DOMAIN response
       THEN /\ isRealDataLoaded' = FALSE
            /\ liveDocuments' = getMockDocuments
            /\ dataSourceIndicator' = "[DEMO] Demo Mock Data"
       ELSE IF "data" \in DOMAIN response
       THEN /\ liveDocuments' = transformEurostatToDocuments(response.data)
            /\ isRealDataLoaded' = TRUE
            /\ dataSourceIndicator' = "[DATA] Live Eurostat Data"
       ELSE UNCHANGED <<isRealDataLoaded, liveDocuments, dataSourceIndicator>>
    /\ at' = "initialized"
    /\ UNCHANGED <<responseJson, currentIndicator, documents, filteredResults, currentFilters,
                   currentPage, tbody, resultStats, pageInfo, success, notification>>
    /\ UNCHANGED <<self, now, cache, call, cycleVars>>

\* the rest of the DOMContentLoaded handler of the Pauhu Stack script
ShowInitialized ==
    /\ at = "initialized"
    /\ filteredResults' = liveDocuments
    /\ tbody' = PageWindow(liveDocuments, 1)
    /\ pageInfo' = [page |-> currentPage, totalPages |-> TotalPages(Len(liveDocuments))]
    /\ notification' =
         IF isRealDataLoaded
         THEN [type |-> "success", message |-> "[OK] Live Eurostat-data ladattu!"]
         ELSE [type |-> "warning", message |-> "[WARNING] Käytetään demo-dataa"]
    /\ at' = "shown"
    /\ UNCHANGED <<responseJson, currentIndicator, documents, liveDocuments, currentFilters,
                   currentPage, resultStats, success, isRealDataLoaded, dataSourceIndicator>>
    /\ UNCHANGED <<self, now, cache, call, cycleVars>>

\* DOMContentLoaded has fired in one of the two pages
InitLoad ==
    /\ NoConnector
    /\ \/ at = "loadRealData" /\ currentIndicator = LoadItems[1]
       \/ at = "initializeRealData" /\ currentIndicator = "none"
    /\ responseJson = NoBody
    /\ documents = <<>>
    /\ TableNotShown
    /\ NothingReported
    /\ NoCycle

NextLoad ==
    \/ \E outcome \in LoadOutcomes : LoadIteration(outcome)
    \/ CombineAndShow
    \/ \E response \in InsightsResponses \cup {Thrown} : InitializeRealData(response)
    \/ ShowInitialized

SpecLoad == InitLoad /\ [][NextLoad]_vars

----------------------------------------------------------------------------
(* formatOECDData (demo.js 238-331)                                        *)

\* the value of a property an object does not have
Undefined == [type |-> "undefined", c |-> 0]

\* item[name]
Field(item, name) == IF name \in DOMAIN item THEN item[name] ELSE Undefined

\* a value `||` passes over: null, undefined or 0
Falsy(v) == v.type \in {"null", "undefined"} \/ (v.type = "number" /\ v.c = 0)

\* a || b
OrElse(a, b) == IF Falsy(a) THEN b ELSE a

\* String(v) of a truthy number or string
ValueText(v) ==
    IF v.type = "string" THEN ":"
    ELSE IF v.c % 100 = 0 THEN ToString(v.c \div 100)
    ELSE IF v.c % 10 = 0 THEN ToString(v.c \div 100) \o "." \o ToString((v.c % 100) \div 10)
    ELSE ToString(v.c \div 100) \o "." \o (IF v.c % 100 < 10 THEN "0" ELSE "")
         \o ToString(v.c % 100)

\* const countryNames = { ... }  (lines 274-280)
countryNamePairs ==
    << <<"FI", "Finland">>, <<"SE", "Sweden">>, <<"DE", "Germany">>, <<"FR", "France">>,
       <<"NL", "Netherlands">>, <<"DK", "Denmark">>, <<"BE", "Belgium">>,
       <<"AT", "Austria">>, <<"IT", "Italy">>, <<"ES", "Spain">>, <<"PL", "Poland">>,
       <<"GR", "Greece">>, <<"PT", "Portugal">>, <<"CZ", "Czech Republic">>,
       <<"HU", "Hungary">>, <<"EU27_2020", "EU27">>, <<"OECD", "OECD Average">> >>

countryNames ==
    [code \in { countryNamePairs[i][1] : i \in DOMAIN countryNamePairs } |->
        countryNamePairs[CHOOSE i \in DOMAIN countryNamePairs :
                            countryNamePairs[i][1] = code][2]]

\* ['FI', 'SE', 'DE', 'FR', 'NL', 'DK', 'BE', 'AT'][idx % 8]  (line 285)
countryOfIndex(idx) == <<"FI", "SE", "DE", "FR", "NL", "DK", "BE", "AT">>[(idx % 8) + 1]

\* topic and topicName of a dataset (lines 290-304)
oecdTopic(dataset) ==
    CASE dataset = "MUNW" -> [topic |-> "waste", topicName |-> "Municipal Waste"]
      [] dataset = "WASTE_TREAT" ->
            [topic |-> "waste-treatment", topicName |-> "Waste Treatment"]
      [] dataset = "MATERIAL_RESOURCES" ->
            [topic |-> "material", topicName |-> "Material Resources"]
      [] dataset \notin {"MUNW", "WASTE_TREAT", "MATERIAL_RESOURCES"}
         /\ includes(dataset, "RECYCLE") ->
            [topic |-> "recycling", topicName |-> "Recycling Rate"]
      [] OTHER -> [topic |-> "waste", topicName |-> "Municipal Waste"]

\* an element of the array that is null
NullItem == [null |-> TRUE]

\* the document of records[idx] (lines 266-319); idx counts from 0
oecdDocument(item, idx, dataset) ==
    LET value == OrElse(OrElse(Field(item, "value"), Field(item, "data")), Num(0))
        named == "country" \in DOMAIN item
        country == IF named THEN item.country ELSE countryOfIndex(idx)
        countryName == IF country \in DOMAIN countryNames
                       THEN countryNames[country] ELSE country
    IN  [date |-> ToString(2020 + (idx % 4)) \o "-06-15",
         country |-> country,
         countryName |-> countryName,
         type |-> "environmental-data",
         typeName |-> "OECD Data",
         topic |-> oecdTopic(dataset).topic,
         topicName |-> oecdTopic(dataset).topicName,
         title |-> countryName \o " (" \o dataset \o "): "
                   \o (IF Falsy(value) THEN "N/A" ELSE ValueText(value)),
         compliance |-> "compliant",
         sector |-> "environment",
         source |-> "OECD"]

\* the records of the SDMX branch (lines 249-262): one for every observation
\* that is an array whose first element is neither null nor undefined; an
\* entry without `obs` is an observation that is null
RECURSIVE sdmxRecords(_)
sdmxRecords(observations) ==
    IF observations = <<>> THEN <<>>
    ELSE LET e == Head(observations)
             keep == "obs" \in DOMAIN e /\ Len(e.obs) > 0 /\ e.obs[1].type # "null"
         IN  (IF keep THEN << [value |-> e.obs[1], key |-> e.key] >> ELSE <<>>)
             \o sdmxRecords(Tail(observations))

\* let records = ...  (lines 242-262)
oecdRecords(data) ==
    IF "array" \in DOMAIN data THEN data.array
    ELSE IF "data" \in DOMAIN data THEN data.data
    ELSE IF "dataSets" \in DOMAIN data
    THEN IF Len(data.dataSets) > 0 /\ "observations" \in DOMAIN data.dataSets[1]
         THEN sdmxRecords(data.dataSets[1].observations)
         ELSE <<>>
    ELSE <<>>

\* records.slice(0, 100).forEach(...) inside the try block: reading a
\* property of a null element throws, which ends the loop
RECURSIVE forEachRecord(_, _, _, _)
forEachRecord(records, idx, dataset, docs) ==
    IF idx >= Len(records) \/ idx >= 100 THEN docs
    ELSE IF records[idx + 1] = NullItem THEN docs
    ELSE forEachRecord(records, idx + 1, dataset,
                       Append(docs, oecdDocument(records[idx + 1], idx, dataset)))

\* formatOECDData(data, dataset)
formatOECDData(data, dataset) == forEachRecord(oecdRecords(data), 0, dataset, <<>>)

\* extractOECDStatObservations(observations, structure) of the OECD
\* connector (oecd-environmental-connector.js 148-177), for a structure
\* that names no dimension: a record for every observation that is an array
\* whose first element is neither null nor undefined
RECURSIVE extractOECDStatObservations(_)
extractOECDStatObservations(observations) ==
    IF observations = <<>> THEN <<>>
    ELSE LET e == Head(observations)
             keep == "obs" \in DOMAIN e /\ Len(e.obs) > 0 /\ e.obs[1].type # "null"
         IN  (IF keep
              THEN << [value |-> e.obs[1],
                       status |-> IF Len(e.obs) > 1 THEN e.obs[2] ELSE "normal"] >>
              ELSE <<>>)
             \o extractOECDStatObservations(Tail(observations))

\* the values of the records of the OECD bodies
ItemValues == {Num(4125), Num(0), NullValue}

\* the elements of an array-shaped OECD body: with a value, with a value and
\* a country, with `data` for `value`, with no value at all, and null
Items ==
    { [value |-> v] : v \in ItemValues }
    \cup { [value |-> v, country |-> c] : v \in ItemValues, c \in {"FI", "XK"} }
    \cup { [data |-> Num(700)], [country |-> "SE"], NullItem }

\* the observations of an SDMX dataset: [value], [value, status], [] or null
ObservationValues ==
    { <<v>> : v \in ItemValues } \cup { <<Num(4125), "E">>, <<>> }

SdmxEntries(k) ==
    { [key |-> k, obs |-> o] : o \in ObservationValues } \cup { [key |-> k] }

\* the sequences of up to n elements of a set
SeqUpTo(S, n) == UNION { [1 .. k -> S] : k \in 0 .. n }

\* the bodies handed to formatOECDData
OecdPayloads ==
    { [array |-> items] : items \in SeqUpTo(Items, MaxRecords) }
    \cup { [data |-> items] : items \in SeqUpTo(Items, MaxRecords) }
    \cup { [dataSets |-> << [observations |-> obs] >>] :
             obs \in { o \in SeqUpTo(SdmxEntries(0) \cup SdmxEntries(1), MaxRecords) :
                         \A i \in DOMAIN o : o[i].key = i - 1 } }
    \cup { [dataSets |-> <<>>], InvalidPayload }

\* oecdResults.push(...formatOECDData(data, dataset))  (demo.js line 72)
FormatOECDData ==
    /\ at = "response"
    /\ currentIndicator \in {"MUNW", "WASTE_TREAT"}
    /\ documents' = formatOECDData(responseJson, currentIndicator)
    /\ at' = "formatted"
    /\ UNCHANGED <<self, now, cache, call, cycleVars, responseJson, currentIndicator,
                   tableVars, reportVars>>

\* data: this.extractOECDStatObservations(dataSet.observations || {}, structure)
\* (oecd-environmental-connector.js line 139)
ExtractOECDStatObservations ==
    /\ at = "parse"
    /\ documents' = extractOECDStatObservations(responseJson.dataSets[1].observations)
    /\ at' = "parsed"
    /\ UNCHANGED <<self, now, cache, call, cycleVars, responseJson, currentIndicator,
                   tableVars, reportVars>>

\* a parsed OECD body is about to be normalized by the page script or by
\* the connector
InitOecdFormat ==
    /\ NoConnector
    /\ responseJson \in OecdPayloads
    /\ \/ at = "response" /\ currentIndicator \in {"MUNW", "WASTE_TREAT"}
       \/ /\ at = "parse"
          /\ currentIndicator = "MUNW"
          /\ "dataSets" \in DOMAIN responseJson
          /\ Len(responseJson.dataSets) > 0
    /\ documents = <<>>
    /\ TableNotShown
    /\ NothingReported
    /\ NoCycle

NextOecdFormat == FormatOECDData \/ ExtractOECDStatObservations

SpecOecdFormat == InitOecdFormat /\ [][NextOecdFormat]_vars

----------------------------------------------------------------------------
(* parseEurostatResults (sparql-data.js 60-81)                             *)

\* s.split('T')[0]
splitT(s) ==
    IF \E i \in 1 .. Len(s) : SubSeq(s, i, i) = "T"
    THEN SubSeq(s, 1, (CHOOSE i \in 1 .. Len(s) :
                          /\ SubSeq(s, i, i) = "T"
                          /\ \A j \in 1 .. i - 1 : SubSeq(s, j, j) # "T") - 1)
    ELSE s

\* uri.match(/geo\/([A-Z]{2})/), null for no uri and for no match
extractCountryCode(binding) ==
    LET uri == IF "country" \in DOMAIN binding THEN binding.country ELSE ""
        hits == { i \in 1 .. Len(uri) - 5 :
                    /\ SubSeq(uri, i, i + 3) = "geo/"
                    /\ SubSeq(uri, i + 4, i + 4) \in DOMAIN LowerOf
                    /\ SubSeq(uri, i + 5, i + 5) \in DOMAIN LowerOf }
    IN  IF hits = {} THEN [null |-> TRUE, code |-> ""]
        ELSE LET first == CHOOSE i \in hits : \A j \in hits : i <= j
             IN  [null |-> FALSE, code |-> SubSeq(uri, first + 4, first + 5)]

\* const countries of getCountryName (lines 157-162)
countries ==
    [code \in {"FI", "SE", "DE", "EU", "OECD"} |->
        CASE code = "FI" -> "Finland" [] code = "SE" -> "Sweden"
          [] code = "DE" -> "Germany" [] code = "EU" -> "European Union"
          [] code = "OECD" -> "OECD Average"]

\* getCountryName(code): countries[code] || code
getCountryName(found) ==
    IF found.null THEN NullValue
    ELSE IF found.code \in DOMAIN countries THEN countries[found.code]
    ELSE found.code

\* detectTopic(title)
detectTopic(binding) ==
    IF "title" \notin DOMAIN binding \/ binding.title = "" THEN "other"
    ELSE LET lower == toLowerCase(binding.title)
         IN  IF includes(lower, "waste") THEN "waste-management"
             ELSE IF includes(lower, "recycl") THEN "recycling"
             ELSE IF includes(lower, "circular") THEN "circular-economy"
             ELSE IF includes(lower, "plastic") THEN "plastics"
             ELSE IF includes(lower, "battery") \/ includes(lower, "batteries")
             THEN "batteries"
             ELSE IF includes(lower, "textile") THEN "textiles"
             ELSE "other"

\* getTopicName(topic)
getTopicName(topic) ==
    CASE topic = "waste-management" -> "Waste Management"
      [] topic = "recycling" -> "Recycling & Recovery"
      [] topic = "circular-economy" -> "Circular Economy"
      [] topic = "plastics" -> "Plastics Strategy"
      [] topic = "batteries" -> "Batteries & Electronics"
      [] topic = "textiles" -> "Textiles & Fashion"
      [] OTHER -> "Other"

\* detectSector(title)
detectSector(binding) ==
    IF "title" \notin DOMAIN binding \/ binding.title = "" THEN "general"
    ELSE LET lower == toLowerCase(binding.title)
         IN  IF includes(lower, "manufact") THEN "manufacturing"
             ELSE IF includes(lower, "electron") THEN "electronics"
             ELSE IF includes(lower, "energy") THEN "energy"
             ELSE IF includes(lower, "construct") THEN "construction"
             ELSE "general"

\* binding[name]?.value || fallback
ValueOr(binding, name, fallback) ==
    IF name \in DOMAIN binding /\ binding[name] # "" THEN binding[name] ELSE fallback

\* the callback of sparqlData.results.bindings.map (lines 65-80)
bindingRecord(binding) ==
    [id |-> ValueOr(binding, "dataset", ""),
     date |-> IF "date" \in DOMAIN binding /\ splitT(binding.date) # ""
              THEN splitT(binding.date) ELSE "",
     country |-> IF extractCountryCode(binding).null
                 THEN "EU" ELSE extractCountryCode(binding).code,
     countryName |-> getCountryName(extractCountryCode(binding)),
     type |-> "dataset",
     typeName |-> "Eurostat Dataset",
     topic |-> detectTopic(binding),
     topicName |-> getTopicName(detectTopic(binding)),
     title |-> ValueOr(binding, "title", "Untitled"),
     theme |-> ValueOr(binding, "theme", ""),
     compliance |-> "compliant",
     sector |-> detectSector(binding),
     source |-> "eurostat",
     sourceUrl |-> ValueOr(binding, "dataset", "")]

\* parseEurostatResults(sparqlData)
parseEurostatResults(sparqlData) ==
    IF "results" \notin DOMAIN sparqlData \/ "bindings" \notin DOMAIN sparqlData.results
    THEN <<>>
    ELSE [i \in DOMAIN sparqlData.results.bindings |->
            bindingRecord(sparqlData.results.bindings[i])]

\* the bindings of the SPARQL results: with a date, a date and time, or no
\* date; with or without a country; with one of two titles
Bindings ==
    { [dataset |-> "http://ec.europa.eu/eurostat/resource/env_wasmun",
       title |-> t, date |-> d] :
        t \in {"Municipal waste", "Energy recycling"},
        d \in {"2024-05-01", "2024-05-01T10:00:00"} }
    \cup { [dataset |-> "http://ec.europa.eu/eurostat/resource/env_wasmun",
            title |-> t, date |-> d, country |-> c] :
        t \in {"Municipal waste"}, d \in {"2024-05-01"},
        c \in {"http://ec.europa.eu/eurostat/geo/FI", "http://ec.europa.eu/eurostat/eu"} }
    \cup { [dataset |-> "http://ec.europa.eu/eurostat/resource/env_wasmun",
            title |-> "Municipal waste"],
           [date |-> "2024-05-01"] }

\* the bodies handed to parseEurostatResults
SparqlPayloads ==
    { [results |-> [bindings |-> b]] : b \in SeqUpTo(Bindings, MaxRecords) }
    \cup { [head |-> "vars"] }

\* return parseEurostatResults(data)  (sparql-data.js line 52)
ParseEurostatResults ==
    /\ at = "bindings"
    /\ documents' = parseEurostatResults(responseJson)
    /\ at' = "mapped"
    /\ UNCHANGED <<self, now, cache, call, cycleVars, responseJson, currentIndicator,
                   tableVars, reportVars>>

\* the SPARQL endpoint has answered 2xx and the body is parsed
InitSparql ==
    /\ NoConnector
    /\ at = "bindings"
    /\ currentIndicator = "none"
    /\ responseJson \in SparqlPayloads
    /\ documents = <<>>
    /\ TableNotShown
    /\ NothingReported
    /\ NoCycle

\* the three normalizers of the page scripts, each on its bodies
InitNormalizers ==
    \/ InitFormat
    \/ InitOecdFormat /\ at = "response"
    \/ InitSparql

NextNormalizers == FormatEurostatData \/ FormatOECDData \/ ParseEurostatResults

SpecNormalizers == InitNormalizers /\ [][NextNormalizers]_vars

----------------------------------------------------------------------------
(* The requests of one load, one by one                                    *)
(*   loadRealData         demo.js 28-95                                    *)
(*   fetchEurostatData    worker-l1-l5.ts 691-735                          *)
(*   fetchOECDData        sparql-data.js 84-115                            *)

\* a table of one country with an observation of 2017 and one of 2023
CyclePayload ==
    [value |-> Entries(1, 2, FALSE, 0, "none"),
     dimension |-> Dimension(GeoList(1), <<"2017", "2023">>, TRUE)]

\* an OECD body with array-shaped records, and an SDMX body with no dataset
OecdCycleBodies ==
    { [array |-> << [value |-> Num(4125), country |-> "FI"] >>],
      [dataSets |-> <<>>] }

\* how a call of fetch ends: the promise rejects, the status is not 2xx,
\* response.json() rejects, or the body is parsed
Answers(bodies) ==
    { [kind |-> "rejects"], [kind |-> "status"], [kind |-> "json"] }
    \cup { [kind |-> "ok", body |-> b] : b \in bodies }

\* the answers of the proxy for an item of loadRealData
ProxyAnswers(item) ==
    IF item \in indicators
    THEN Answers({InvalidPayload, CyclePayload})
    ELSE Answers(OecdCycleBodies)

\* the value a load function resolved to
Returned(v) == [value |-> v]

\* const response = await fetch(proxyUrl): the request of this turn of the
\* loop is sent (lines 43 and 69)
CycleFetch ==
    /\ running = "loadRealData"
    /\ at = "fetch"
    /\ requests' = Append(requests, currentIndicator)
    /\ inFlight' = {currentIndicator}
    /\ at' = "await"
    /\ UNCHANGED <<responseJson, currentIndicator, documents, tableVars, reportVars,
                   running, eurostatResults, oecdResults, allResults, workerResults,
                   returned, self, now, cache, call>>

\* mutation: a turn whose request failed empties what was collected
CollectedReset(collected, answer, docs) ==
    IF answer.kind = "ok" THEN collected \o docs ELSE <<>>

\* eurostatResults.push(...formatted), oecdResults.push(...formatOECDData(..)):
\* only a parsed 2xx answer adds documents (lines 45-56 and 70-78)
Collected(collected, answer, docs) ==
    IF answer.kind = "ok" THEN collected \o docs ELSE collected

\* the rest of the turn of the loop, from the answer to the next turn
\* (lines 44-56 and 70-78)
CycleAnswer(answer) ==
    /\ running = "loadRealData"
    /\ at = "await"
    /\ inFlight' = {}
    /\ responseJson' = IF answer.kind = "ok" THEN answer.body ELSE responseJson
    /\ IF currentIndicator \in indicators
       THEN /\ eurostatResults' =
                 Collected(eurostatResults, answer,
                     IF answer.kind = "ok"
                     THEN formatEurostatData(answer.body, currentIndicator) ELSE <<>>)
            /\ UNCHANGED oecdResults
       ELSE /\ oecdResults' =
                 Collected(oecdResults, answer,
                     IF answer.kind = "ok"
                     THEN formatOECDData(answer.body, currentIndicator) ELSE <<>>)
            /\ UNCHANGED eurostatResults
    /\ IF NextItem(currentIndicator) \in DOMAIN LoadItems
       THEN /\ currentIndicator' = LoadItems[NextItem(currentIndicator)]
            /\ at' = "fetch"
       ELSE /\ currentIndicator' = "none"
            /\ at' = "combine"
    /\ UNCHANGED <<documents, tableVars, reportVars, running, requests, allResults,
                   workerResults, returned, self, now, cache, call>>

\* liveDocuments = [...eurostatResults, ...oecdResults] and the return
\* (lines 82-90)
CycleCombine ==
    /\ running = "loadRealData"
    /\ at = "combine"
    /\ liveDocuments' = eurostatResults \o oecdResults
    /\ returned' = Returned(Len(liveDocuments') # 0)
    /\ at' = "returned"
    /\ UNCHANGED <<responseJson, currentIndicator, documents, filteredResults,
                   currentFilters, currentPage, tbody, resultStats, pageInfo, reportVars,
                   running, requests, inFlight, eurostatResults, oecdResults, allResults,
                   workerResults, self, now, cache, call>>

\* const indicators of the worker's fetchEurostatData, cut to its first three
workerIndicators == <<"cei_srm030", "cei_wm011", "cei_wm020">>

\* indicators.map(async ...) : every callback runs up to its await, which
\* sends its request (lines 718-722)
WorkerMap ==
    /\ running = "fetchEurostatData"
    /\ at = "map"
    /\ requests' = requests \o workerIndicators
    /\ inFlight' = { workerIndicators[i] : i \in DOMAIN workerIndicators }
    /\ at' = "all"
    /\ UNCHANGED <<responseJson, currentIndicator, documents, tableVars, reportVars,
                   running, eurostatResults, oecdResults, allResults, workerResults,
                   returned, self, now, cache, call>>

\* the rest of one callback (lines 723-732): there is no test of the status
WorkerAnswer(code, answer) ==
    /\ running = "fetchEurostatData"
    /\ at = "all"
    /\ code \in inFlight
    /\ inFlight' = inFlight \ {code}
    /\ LET index == CHOOSE i \in DOMAIN workerIndicators : workerIndicators[i] = code
           filled == /\ answer.kind = "ok"
                     /\ "value" \in DOMAIN answer.body
                     /\ Len(answer.body.value) > 0
       IN  workerResults' =
             IF filled
             THEN [i \in DOMAIN workerResults \cup {index} |->
                     IF i = index
                     THEN [value |-> answer.body.value[1].val, code |-> code]
                     ELSE workerResults[i]]
             ELSE workerResults
    /\ UNCHANGED <<at, responseJson, currentIndicator, documents, tableVars, reportVars,
                   running, requests, eurostatResults, oecdResults, allResults,
                   returned, self, now, cache, call>>

\* await Promise.all(promises); return results  (lines 734-735)
WorkerJoin ==
    /\ running = "fetchEurostatData"
    /\ at = "all"
    /\ inFlight = {}
    /\ returned' = Returned(workerResults)
    /\ at' = "returned"
    /\ UNCHANGED <<responseJson, currentIndicator, documents, tableVars, reportVars,
                   running, requests, inFlight, eurostatResults, oecdResults, allResults,
                   workerResults, self, now, cache, call>>

\* const datasets of fetchOECDData (lines 91-95)
datasets == <<"ENV_WASTE", "GREEN_GROWTH", "CIRCULAR_ECON">>

\* an SDMX body of n observations, a body with no dataset, and a body whose
\* one observation is null
SdmxBodies ==
    { [dataSets |-> << [observations |->
                          [i \in 1 .. n |-> [key |-> i, obs |-> <<Num(100 * i)>>]]] >>] :
        n \in 1 .. 2 }
    \cup { [dataSets |-> <<>>],
           [dataSets |-> << [observations |-> << [key |-> 1] >>] >>] }

\* parseOECDResults(oecdData, datasetId) (lines 118-147): observations[key][0]
\* of a null observation throws
parseOECDResults(oecdData, datasetId) ==
    IF "dataSets" \notin DOMAIN oecdData \/ Len(oecdData.dataSets) = 0
    THEN [throws |-> FALSE, docs |-> <<>>]
    ELSE LET observations == oecdData.dataSets[1].observations
             shown == SubSeq(observations, 1, IF Len(observations) < 50
                                              THEN Len(observations) ELSE 50)
         IN  IF \E i \in DOMAIN shown : "obs" \notin DOMAIN shown[i]
             THEN [throws |-> TRUE, docs |-> <<>>]
             ELSE [throws |-> FALSE,
                   docs |-> [i \in DOMAIN shown |->
                              [id |-> "oecd-" \o datasetId \o "-" \o ToString(i - 1),
                               date |-> "2025-01-01",
                               country |-> "OECD",
                               countryName |-> NullValue,
                               type |-> "indicator",
                               typeName |-> "OECD Indicator",
                               topic |-> "circular-economy",
                               topicName |-> "Circular Economy",
                               title |-> datasetId \o " - Indicator",
                               value |-> IF Len(shown[i].obs) > 0
                                         THEN shown[i].obs[1] ELSE Undefined,
                               compliance |-> "compliant",
                               sector |-> "environment",
                               source |-> "oecd"]]]

\* const response = await fetch(`${apiUrl}${dataset}/all/all`): the request
\* is sent (line 101)
OecdLoopFetch ==
    /\ running = "fetchOECDData"
    /\ at = "fetch"
    /\ requests' = Append(requests, currentIndicator)
    /\ inFlight' = {currentIndicator}
    /\ at' = "await"
    /\ UNCHANGED <<responseJson, currentIndicator, documents, tableVars, reportVars,
                   running, eurostatResults, oecdResults, allResults, workerResults,
                   returned, self, now, cache, call>>

\* position of the dataset after `dataset` in datasets
NextDataset(dataset) == 1 + CHOOSE i \in DOMAIN datasets : datasets[i] = dataset

\* catch (error) { ...; return []; }  (lines 111-114)
Caught(collected) == <<>>

\* the rest of the turn of the loop (lines 103-107), the return after the
\* last turn (line 110) and the catch block around the loop (lines 111-114)
OecdLoopAnswer(answer) ==
    /\ running = "fetchOECDData"
    /\ at = "await"
    /\ inFlight' = {}
    /\ LET parsed == IF answer.kind = "ok"
                     THEN parseOECDResults(answer.body, currentIndicator)
                     ELSE [throws |-> FALSE, docs |-> <<>>]
           thrown == answer.kind \in {"rejects", "json"} \/ parsed.throws
           last == NextDataset(currentIndicator) \notin DOMAIN datasets
       IN  /\ responseJson' = IF answer.kind = "ok" THEN answer.body ELSE responseJson
           /\ allResults' = IF thrown THEN allResults ELSE allResults \o parsed.docs
           /\ IF thrown
              THEN /\ returned' = Returned(Caught(allResults))
                   /\ at' = "returned"
                   /\ UNCHANGED currentIndicator
              ELSE IF last
              THEN /\ returned' = Returned(allResults')
                   /\ at' = "returned"
                   /\ currentIndicator' = "none"
              ELSE /\ currentIndicator' = datasets[NextDataset(currentIndicator)]
                   /\ at' = "fetch"
                   /\ UNCHANGED returned
    /\ UNCHANGED <<documents, tableVars, reportVars, running, requests, eurostatResults,
                   oecdResults, workerResults, self, now, cache, call>>

\* one of the three load functions has been called
InitCycle ==
    /\ NoConnector
    /\ \/ running = "loadRealData" /\ at = "fetch" /\ currentIndicator = LoadItems[1]
       \/ running = "fetchEurostatData" /\ at = "map" /\ currentIndicator = "none"
       \/ running = "fetchOECDData" /\ at = "fetch" /\ currentIndicator = datasets[1]
    /\ responseJson = NoBody
    /\ documents = <<>>
    /\ TableNotShown
    /\ NothingReported
    /\ requests = <<>>
    /\ inFlight = {}
    /\ eurostatResults = <<>>
    /\ oecdResults = <<>>
    /\ allResults = <<>>
    /\ workerResults = <<>>
    /\ returned = NotReturned

NextCycle ==
    \/ CycleFetch
    \/ \E answer \in ProxyAnswers(currentIndicator) : CycleAnswer(answer)
    \/ CycleCombine
    \/ WorkerMap
    \/ \E code \in inFlight, answer \in Answers({InvalidPayload, CyclePayload}) :
          WorkerAnswer(code, answer)
    \/ WorkerJoin
    \/ OecdLoopFetch
    \/ \E answer \in Answers(SdmxBodies) : OecdLoopAnswer(answer)

SpecCycle == InitCycle /\ [][NextCycle]_vars

----------------------------------------------------------------------------
(* Properties of the fetch caches *)

CacheMethods == {"fetchEurostatData", "getEnvironmentalData"}

\* call c is waiting for a response
Pending(c) == call[c].pc \in {"fetching", "direct", "compass"}

\* the step settles call c, which was waiting for a response
Settles(c) == Pending(c) /\ call'[c].pc = "done"

\* the step starts a call of a cache method in slot c
Starts(c) == call[c].pc = "idle" /\ call'[c].pc # "idle" /\ call'[c].fn \in CacheMethods

\* age the TTL of the method's connector allows: 30 and 60 minutes
WithinTTL(fn, age) ==
    IF fn = "fetchEurostatData" THEN age < 1800000 ELSE age < 3600000

\* the payload has the top-level fields the normalizer expects
HasStructure(d) == "value" \in DOMAIN d /\ "dimension" \in DOMAIN d

\* the value carries a `stale: true` marker
HasStaleMarker(v) == "stale" \in DOMAIN v /\ v.stale = TRUE

\* C1: when a request of fetchEurostatData fails (network error, non-2xx
\* status or unparseable body) and the cache has an entry for the key, stored
\* by an earlier successful fetch, the call returns the payload of that entry
\* instead of failing, whether the entry is fresh or expired.
C1_StaleFallback ==
    [][\A c \in Calls :
        (/\ Settles(c)
         /\ call[c].fn = "fetchEurostatData"
         /\ call'[c].resp.status \in Failures
         /\ call[c].key \in DOMAIN cache)
        => /\ call'[c].kind = "return"
           /\ call'[c].value = cache[call[c].key].data
           /\ call'[c].value \in Bodies]_vars

\* a failed fetchEurostatData has been answered from an expired entry
C1_Witness ==
    \E c \in Calls :
        /\ call[c].pc = "done"
        /\ call[c].fn = "fetchEurostatData"
        /\ call[c].resp.status \in Failures
        /\ call[c].key \in DOMAIN cache
        /\ now - cache[call[c].key].timestamp >= 1800000
        /\ call[c].kind = "return"
        /\ call[c].value = cache[call[c].key].data

\* C2: fetchEurostatData fails exactly when its request failed and the cache
\* holds no entry at all for the key, and then it fails with the error of the
\* request; with an entry, fresh or expired, it never fails.
C2_ErrorOnlyWithoutEntry ==
    [][\A c \in Calls :
        (call[c].pc # "done" /\ call'[c].pc = "done" /\ call'[c].fn = "fetchEurostatData")
        => /\ call'[c].kind \in {"return", "throw"}
           /\ call'[c].kind = "throw"
                <=> (call'[c].resp.status \in Failures /\ call'[c].key \notin DOMAIN cache)
           /\ call'[c].kind = "throw"
                => call'[c].value = [error |-> call'[c].resp.status]]_vars

\* a fetchEurostatData has failed while the cache had no entry for its key
C2_Witness ==
    \E c \in Calls :
        /\ call[c].pc = "done"
        /\ call[c].fn = "fetchEurostatData"
        /\ call[c].resp.status \in Failures
        /\ call[c].key \notin DOMAIN cache
        /\ call[c].kind = "throw"

C4_StaleMarked ==
    \A c \in Calls :
        (/\ call[c].pc = "done"
         /\ call[c].fn = "fetchEurostatData"
         /\ call[c].resp.status \in Failures
         /\ call[c].kind = "return")
        => HasStaleMarker(call[c].value)

\* C5: a step that handles a failed response (it settles the call after a
\* failure, or turns from the failed direct request to the fallback) leaves
\* the cache as it was: the entry of the key keeps its payload and its
\* timestamp, and so do the entries of all other keys.
C5_FailedFetchKeepsCache ==
    [][\A c \in Calls :
        (\/ Settles(c) /\ call'[c].resp.status \in Failures
         \/ call[c].pc = "direct" /\ call'[c].pc = "compass")
        => cache' = cache]_vars

\* a fetchEurostatData has failed while the cache held an entry of its key
\* and an entry of another key
C5_Witness ==
    \E c \in Calls :
        /\ call[c].pc = "done"
        /\ call[c].fn = "fetchEurostatData"
        /\ call[c].resp.status \in Failures
        /\ call[c].key \in DOMAIN cache
        /\ \E k \in DOMAIN cache : k # call[c].key

\* C6: a fetch that finds an entry of its key aged 30 minutes (Eurostat) or
\* 60 minutes (OECD) or more is not answered by the cache check but sends a
\* request; a fetch that ends with live data leaves an entry with that data
\* and the current time; a fetch that finds a younger entry returns its data.
C6_Expiry ==
    [][\A c \in Calls :
        /\ (/\ Starts(c)
            /\ call'[c].key \in DOMAIN cache
            /\ ~WithinTTL(call'[c].fn, now - cache[call'[c].key].timestamp))
           => Pending(c)' /\ call'[c].nreq = 1
        /\ (/\ Settles(c)
            /\ call[c].fn \in CacheMethods
            /\ call'[c].resp.status = "ok"
            /\ "null" \notin DOMAIN call'[c].value
            /\ "error" \notin DOMAIN call'[c].value)
           => /\ call[c].key \in DOMAIN cache'
              /\ cache'[call[c].key] = [data |-> call'[c].value, timestamp |-> now]
        /\ (/\ Starts(c)
            /\ call'[c].key \in DOMAIN cache
            /\ WithinTTL(call'[c].fn, now - cache[call'[c].key].timestamp))
           => call'[c].pc = "done" /\ call'[c].value = cache[call'[c].key].data]_vars

\* a request is out for a key whose entry is exactly as old as the TTL
C6_Witness ==
    \E c \in Calls :
        /\ Pending(c)
        /\ call[c].nreq = 1
        /\ call[c].key \in DOMAIN cache
        /\ \/ call[c].fn = "fetchEurostatData"
              /\ now - cache[call[c].key].timestamp = 1800000
           \/ call[c].fn = "getEnvironmentalData"
              /\ now - cache[call[c].key].timestamp = 3600000

\* C7: when the live fetch of getEnvironmentalData has failed (the fallback
\* request failed after the direct request had failed or had not been sent)
\* and the cache holds an expired entry of the key, the call returns the data
\* of that entry.
C7_OecdStaleFallback ==
    [][\A c \in Calls :
        (/\ Settles(c)
         /\ call[c].fn = "getEnvironmentalData"
         /\ call'[c].resp.status \in Failures
         /\ call[c].key \in DOMAIN cache
         /\ now - cache[call[c].key].timestamp >= 3600000)
        => call'[c].value = cache[call[c].key].data]_vars

\* C8: a 2xx response without `value` and `dimension` that arrives while the
\* cache holds a well-formed entry of the key is answered with the payload of
\* that entry and does not replace the entry.
C8_MalformedKeepsGoodEntry ==
    [][\A c \in Calls :
        (/\ Settles(c)
         /\ call[c].fn = "fetchEurostatData"
         /\ call'[c].resp.status = "ok"
         /\ ~HasStructure(call'[c].resp.body)
         /\ call[c].key \in DOMAIN cache
         /\ HasStructure(cache[call[c].key].data))
        => /\ call'[c].value = cache[call[c].key].data
           /\ cache'[call[c].key] = cache[call[c].key]]_vars

\* C9: no two requests of fetchEurostatData for the same cache key are out at
\* the same time.
C9_OneRequestPerKey ==
    \A c1, c2 \in Calls :
        (c1 # c2 /\ call[c1].pc = "fetching" /\ call[c2].pc = "fetching")
        => call[c1].key # call[c2].key

\* C10: getCircularEconomyData called with an indicator that is not one of
\* the five listed codes fails with the unknown-indicator error without
\* having issued a request, and the cache stays as it was.
C10_UnknownIndicatorFailsFast ==
    [][\A c \in Calls :
        (/\ call[c].pc = "idle"
         /\ call'[c].fn = "getCircularEconomyData"
         /\ call'[c].arg \notin {"cei_srm030", "cei_wm011", "cei_pc020",
                                 "cei_cie011", "cei_gsr010"})
        => /\ call'[c].pc = "done"
           /\ call'[c].kind = "throw"
           /\ call'[c].value = [error |-> "Unknown indicator"]
           /\ call'[c].nreq = 0
           /\ cache' = cache]_vars

\* C11: getEnvironmentalData called with a dataset that apiEndpoints does not
\* list never issues a request, neither to OECD.Stat nor to the fallback.
C11_UnknownDatasetNoRequest ==
    \A c \in Calls :
        (/\ call[c].fn = "getEnvironmentalData"
         /\ call[c].arg \notin {"MUNW", "MATERIAL_RESOURCES", "GREEN_GROWTH",
                                "WASTE_TREAT", "CIRCULAR_ECONOMY", "RECYCLING"})
        => call[c].nreq = 0 /\ call[c].pc \notin {"direct", "compass"}

\* C12: a call of fetchEurostatData sends one request when it finds no entry
\* or an expired one and none when it finds a fresh one; the response, failed
\* or not, settles the call without another request.
C12_OneRequestPerCall ==
    [][\A c \in Calls :
        /\ (Starts(c) /\ call'[c].fn = "fetchEurostatData")
           => IF /\ call'[c].key \in DOMAIN cache
                 /\ now - cache[call'[c].key].timestamp < 1800000
              THEN call'[c].pc = "done" /\ call'[c].nreq = 0
              ELSE call'[c].pc = "fetching" /\ call'[c].nreq = 1
        /\ (call[c].pc = "fetching" /\ call[c].fn = "fetchEurostatData"
            /\ call'[c] # call[c])
           => /\ call'[c].pc = "done"
              /\ call'[c].nreq = call[c].nreq
              /\ call'[c].nreq = 1]_vars

\* a fetchEurostatData whose single request failed has been answered from the
\* cache
C12_Witness ==
    \E c \in Calls :
        /\ call[c].pc = "done"
        /\ call[c].fn = "fetchEurostatData"
        /\ call[c].resp.status \in Failures
        /\ call[c].site = "L89"
        /\ call[c].nreq = 1

----------------------------------------------------------------------------
(* Properties of formatEurostatData *)

\* the (country, year, value) triple a document shows
Triple(doc) ==
    [country |-> doc.country,
     year |-> SubSeq(doc.date, 1, Len(doc.date) - 6),
     title |-> doc.title]

\* the key under which a payload holds the observation of geo g and time t
EncodedKey(d, g, t) ==
    IF d.value # <<>> /\ Len(d.value[1].key) > 1
    THEN <<0, 0, g, t>>
    ELSE <<g * Len(d.dimension.time) + t>>

\* the payload holds a number for geo g and time t
HasNumber(d, g, t) ==
    \E i \in DOMAIN d.value :
        d.value[i].key = EncodedKey(d, g, t) /\ d.value[i].val.type = "number"

NumberAt(d, g, t) ==
    d.value[CHOOSE i \in DOMAIN d.value : d.value[i].key = EncodedKey(d, g, t)].val

\* the triples encoded in a payload, row by row, of the observations that
\* have a number and a year from 2018 on
EncodedTriples(d, ind) ==
    LET geo == d.dimension.geo
        time == d.dimension.time
        Kept(r) == HasNumber(d, r[1], r[2]) /\ parseInt(time[r[2] + 1]).n >= 2018
        rows == SelectSeq(Rows(0, Len(geo), Len(time)), Kept)
    IN  [i \in 1 .. Len(rows) |->
            [country |-> geo[rows[i][1] + 1],
             year |-> time[rows[i][2] + 1],
             title |-> countryMap(geo[rows[i][1] + 1]) \o " ("
                       \o time[rows[i][2] + 1] \o "): " \o indicatorNames[ind] \o " "
                       \o formattedValue(ind, NumberAt(d, rows[i][1], rows[i][2])).text]]

\* every value of the payload is a number or null
NumbersOnly(d) == \A i \in DOMAIN d.value : d.value[i].val.type # "string"

\* C13: decoding a payload of sizes [1,1,G,T], encoded row-major with time
\* varying fastest, yields the encoded (country, year, value) triples, one
\* document per retained observation, in ascending order of the linear index.
C13_RoundTrip ==
    (at = "formatted" /\ responseJson # InvalidPayload /\ NumbersOnly(responseJson))
    => /\ Len(documents) = Len(EncodedTriples(responseJson, currentIndicator))
       /\ \A i \in DOMAIN documents :
            Triple(documents[i]) = EncodedTriples(responseJson, currentIndicator)[i]

\* the six observations of a [1,1,3,2] table with linear keys are decoded
C13_Witness ==
    /\ at = "formatted"
    /\ responseJson # InvalidPayload
    /\ "size" \in DOMAIN responseJson.dimension
    /\ responseJson.dimension.size = <<1, 1, 3, 2>>
    /\ Len(responseJson.value) = 6
    /\ \A i \in 1 .. 6 : responseJson.value[i].key = <<i - 1>>
    /\ Len(documents) = 6

\* C14: no document shows NaN: an observation whose value is no number
\* yields no document.
C14_NoNaNInOutput ==
    at = "formatted"
    => /\ \A i \in DOMAIN documents : ~includes(documents[i].title, "NaN")
       /\ (responseJson # InvalidPayload
           => Len(documents) <= Cardinality({ i \in DOMAIN responseJson.value :
                                    responseJson.value[i].val.type = "number" }))

\* the year an observation of the payload resolves to
ResolvedYear(d, entry) ==
    parseInt(ReverseLookup(d.dimension.time, timeIdx(d, entry.key), "2023"))

----------------------------------------------------------------------------
(* Properties of the filter and of the page window *)

\* this step has run filterResults
FilterStep ==
    \/ currentFilters' # currentFilters
    \/ filteredResults' # filteredResults
    \/ resultStats' # resultStats

\* `selected` is 'all' or names x
Selects(selected, x) ==
    \E i \in DOMAIN selected : selected[i] = "all" \/ selected[i] = x

\* the date lies in the range of the filters
InDateRange(doc, f) ==
    ~StringLess(doc.date, f.dateFrom) /\ ~StringLess(f.dateTo, doc.date)

\* the search text is blank or occurs in the searched text of the document
Matches(doc, text) ==
    trim(text) = "" \/ includes(searchFields(doc), toLowerCase(text))

\* the document satisfies every filter but the search text
SatisfiesSelections(doc, f) ==
    /\ InDateRange(doc, f)
    /\ Selects(f.countries, doc.country)
    /\ Selects(f.docTypes, doc.type)
    /\ Selects(f.topics, doc.topic)
    /\ Selects(f.sectors, doc.sector)
    /\ f.compliance \in {"all", doc.compliance}

\* `part` is made of the documents of `all` that satisfy Keep, in their
\* order
IsSelection(part, all, Keep(_)) == part = SelectSeq(all, Keep)

\* C16: filterResults leaves in filteredResults the documents of
\* liveDocuments that satisfy every filter, in their order; with the one
\* country FI selected and nothing else restricting, those are the documents
\* of Finland.
C16_FilterConjunction ==
    [][FilterStep =>
        LET f == currentFilters'
            Keep(doc) == SatisfiesSelections(doc, f) /\ Matches(doc, f.search)
            Finnish(doc) == doc.country = "FI"
        IN  /\ IsSelection(filteredResults', liveDocuments', Keep)
            /\ (/\ f.countries = <<"FI">>
                /\ f.docTypes = <<"all">> /\ f.topics = <<"all">>
                /\ f.sectors = <<"all">> /\ f.compliance = "all"
                /\ f.search = ""
                /\ \A i \in DOMAIN liveDocuments' : InDateRange(liveDocuments'[i], f))
               => IsSelection(filteredResults', liveDocuments', Finnish)]_vars

\* Finland alone is selected: some documents are left, others are not
C16_Witness ==
    /\ at = "ready"
    /\ resultStats # NoStats
    /\ currentFilters.countries = <<"FI">>
    /\ currentFilters.dateTo = "2030-12-31"
    /\ Len(filteredResults) > 0
    /\ Len(filteredResults) < Len(liveDocuments)
    /\ \A i \in DOMAIN filteredResults : filteredResults[i].country = "FI"

\* the filters name no country, topic, sector or compliance and no search text
Wildcards(f) ==
    /\ f.countries = <<"all">> /\ f.topics = <<"all">>
    /\ f.sectors = <<"all">> /\ f.compliance = "all"
    /\ f.search = ""

\* C17 as stated: with countries, topics, sectors and compliance 'all' and
\* no search text, filterResults leaves every document in place.
C17_IdentityLaw ==
    [][(FilterStep /\ Wildcards(currentFilters'))
        => filteredResults' = liveDocuments']_vars

\* C17: with countries, document types, topics, sectors and compliance
\* 'all', no search text, and a date range that holds the date of every
\* document, filterResults leaves every document in place.
C17_IdentityLawInRange ==
    [][(/\ FilterStep
        /\ Wildcards(currentFilters')
        /\ currentFilters'.docTypes = <<"all">>
        /\ \A i \in DOMAIN liveDocuments' :
              InDateRange(liveDocuments'[i], currentFilters'))
        => filteredResults' = liveDocuments']_vars

\* the filters have been reset over documents that include one of 2024 and
\* the date range has been widened: every document is a result
C17_Witness ==
    /\ at = "ready"
    /\ resultStats # NoStats
    /\ Wildcards(currentFilters)
    /\ currentFilters.docTypes = <<"all">>
    /\ currentFilters.dateTo = "2030-12-31"
    /\ \E i \in DOMAIN liveDocuments : liveDocuments[i].date = "2024-06-15"
    /\ filteredResults = liveDocuments

\* the text of title, country name, indicator and topic name
FourFields(doc) ==
    toLowerCase(join(<< FieldOr(doc, "title", "title"),
                        FieldOr(doc, "countryName", "country"),
                        FieldOr(doc, "indicator", "indicator"),
                        FieldOr(doc, "topicName", "topic") >>))

\* the documents of a sequence
Range(docs) == { docs[i] : i \in DOMAIN docs }

\* the document is a result
IsResult(doc, results) == \E j \in DOMAIN results : results[j] = doc

Positions(results, first, last) ==
    [i \in 1 .. (IF last >= first THEN last - first + 1 ELSE 0) |-> results[first + i - 1]]

\* C19: the rows of the table are the results at the positions
\* (p-1)*10 .. min(p*10, n)-1, counted from 0, of page p; the windows of the
\* pages 1 .. ceil(n/10) hold every result exactly once.
C19_PageWindow ==
    at = "ready"
    => LET n == Len(filteredResults)
           Last(p) == IF p * 10 < n THEN p * 10 ELSE n
       IN  /\ tbody = Positions(filteredResults, (currentPage - 1) * 10 + 1, Last(currentPage))
           /\ \A j \in 1 .. n :
                Cardinality({ p \in 1 .. TotalPages(n) :
                    \E i \in DOMAIN PageWindow(filteredResults, p) :
                        /\ (p - 1) * 10 + i = j
                        /\ PageWindow(filteredResults, p)[i] = filteredResults[j] }) = 1

\* the second page of twelve results shows the last two
C19_Witness ==
    /\ at = "ready"
    /\ currentPage = 2
    /\ Len(filteredResults) = 12
    /\ tbody = <<filteredResults[11], filteredResults[12]>>

----------------------------------------------------------------------------
(* Property of the report of the source *)

\* C20: when the documents shown are the sample or mock documents, the page
\* does not tell that they are live: no success notification and no 'Live'
\* data source indicator.
C20_PlaceholderNeverLive ==
    (at = "shown" /\ liveDocuments \in {getSampleData, getMockDocuments})
    => /\ notification.type # "success"
       /\ dataSourceIndicator # "[DATA] Live Eurostat Data"

----------------------------------------------------------------------------
(* Properties of the loads, request by request *)

\* the Eurostat indicators the running load function asks for
RequestedIndicators ==
    CASE running = "loadRealData" -> indicators
      [] running = "fetchEurostatData" -> Range(workerIndicators)
      [] OTHER -> {}

\* the load waits for the response of a Eurostat indicator
AwaitsIndicator == \E i \in inFlight : i \in RequestedIndicators

\* C21: fan-out/fan-in: whenever a load waits for the response of a Eurostat
\* indicator, the request of every indicator of that load has already been
\* sent; the requests are not sent one after another, each after the
\* response of the one before.
C21_FanOut ==
    AwaitsIndicator
    => \A i \in RequestedIndicators : \E k \in DOMAIN requests : requests[k] = i

----------------------------------------------------------------------------
(* Properties of the OECD normalizers *)

\* the observation value an element of an array-shaped body carries
ItemObservation(item) ==
    IF item = NullItem THEN NullValue
    ELSE IF "value" \in DOMAIN item THEN item.value
    ELSE Field(item, "data")

\* the observation values of an OECD body, in the order of the body
PayloadObservations(data) ==
    IF "array" \in DOMAIN data
    THEN [i \in DOMAIN data.array |-> ItemObservation(data.array[i])]
    ELSE IF "data" \in DOMAIN data
    THEN [i \in DOMAIN data.data |-> ItemObservation(data.data[i])]
    ELSE IF "dataSets" \in DOMAIN data /\ Len(data.dataSets) > 0
    THEN LET obs == data.dataSets[1].observations
         IN  [i \in DOMAIN obs |->
                IF "obs" \in DOMAIN obs[i] /\ Len(obs[i].obs) > 0
                THEN obs[i].obs[1] ELSE Undefined]
    ELSE <<>>

\* the number of observations of a body that are neither null nor undefined
NonNullObservations(data) ==
    Cardinality({ i \in DOMAIN PayloadObservations(data) :
                    PayloadObservations(data)[i].type \notin {"null", "undefined"} })

\* C22: an observation whose value is null or undefined gives no record in
\* any OECD normalizer path (SDMX observations, array-shaped records): the
\* number of records never exceeds the number of non-null observations.
C22_NullsSkipped ==
    at \in {"formatted", "parsed"}
    => Len(documents) <= NonNullObservations(responseJson)

----------------------------------------------------------------------------
(* Property of the dates of the records *)

\* the two characters of s from i spell a number of lo .. hi
TwoDigits(s, i, lo, hi) ==
    /\ SubSeq(s, i, i) \in DOMAIN DigitValue
    /\ SubSeq(s, i + 1, i + 1) \in DOMAIN DigitValue
    /\ LET n == 10 * DigitValue[SubSeq(s, i, i)] + DigitValue[SubSeq(s, i + 1, i + 1)]
       IN  lo <= n /\ n <= hi

\* s reads YYYY-MM-DD
IsDate(s) ==
    /\ Len(s) = 10
    /\ \A i \in 1 .. 4 : SubSeq(s, i, i) \in DOMAIN DigitValue
    /\ SubSeq(s, 5, 5) = "-"
    /\ SubSeq(s, 8, 8) = "-"
    /\ TwoDigits(s, 6, 1, 12)
    /\ TwoDigits(s, 9, 1, 31)

\* C23: every record a normalizer emits has a date that reads YYYY-MM-DD,
\* for every body: also when the time label is no plain year, when the time
\* index is not resolved, and when a SPARQL binding has no date.
C23_DateParseable ==
    at \in {"formatted", "mapped"}
    => \A i \in DOMAIN documents : IsDate(documents[i].date)

----------------------------------------------------------------------------
(* Properties of the result table over the events of the page *)

\* C24: in every state after the page has loaded, through any sequence of
\* apply, reset, search-input and page-change events, filteredResults is
\* the result of applying currentFilters to the loaded documents; so the
\* initial display equals what Apply with the default filters would show.
C24_DisplayMatchesFilters ==
    at = "ready" => filteredResults = Filtered(liveDocuments, currentFilters)

\* the number of pages shown for n results, one page for none
LastPage(n) == IF TotalPages(n) > 1 THEN TotalPages(n) ELSE 1

\* the current page is one of the pages and its window is not empty unless
\* there is no result
PageInBounds ==
    /\ 1 <= currentPage
    /\ currentPage <= LastPage(Len(filteredResults))
    /\ filteredResults # <<>>
       => /\ PageWindow(filteredResults, currentPage) # <<>>
          /\ tbody # <<>>

\* this step is an apply, a reset or a search-input event
FilterEvent ==
    \/ \E form \in FilterForms : ApplyFilters(form)
    \/ ResetFilters
    \/ \E text \in SearchTexts : SearchInput(text)

\* this step is a changePage(direction) whose new page is no page
PageEventOutOfRange(direction) ==
    /\ ChangePage(direction)
    /\ ~(1 <= currentPage + direction
         /\ currentPage + direction <= TotalPages(Len(filteredResults)))

\* C25: through any sequence of changePage(+1/-1), apply, reset and
\* search-input events, 1 <= currentPage <= max(1, ceil(|filteredResults|/10)),
\* so the window of the current page is not empty when there are results;
\* every event that recomputes filteredResults sets currentPage to 1, and a
\* changePage that would leave the range changes nothing.
C25_PageInRange ==
    /\ [](at = "ready" => PageInBounds)
    /\ [][ /\ FilterEvent => currentPage' = 1
           /\ \A direction \in {-1, 1} :
                PageEventOutOfRange(direction) => UNCHANGED tableVars ]_vars

\* the last of two pages is shown, with its one row
C25_Witness ==
    /\ at = "ready"
    /\ Len(filteredResults) = 11
    /\ currentPage = 2
    /\ pageInfo = [page |-> 2, totalPages |-> 2]
    /\ Len(tbody) = 1

\* the text of #result-stats agrees with the rows of the table
StatsAgree ==
    /\ resultStats # NoStats
    /\ resultStats.showing = Len(tbody)
    /\ resultStats.total = Len(filteredResults)

\* C26: after any sequence of filter and page-change events, N of 'Showing
\* N of M results' is the number of rows rendered for the current page and
\* M is the length of filteredResults, also on the last, partial page and
\* after changePage.
C26_StatsAgreeWithTable ==
    (at = "ready" /\ resultStats # NoStats) => StatsAgree

----------------------------------------------------------------------------
(* Property of the results of the OECD connector *)

\* call c of getEnvironmentalData sends its fallback request in this step
TurnsToCompass(c) ==
    /\ call'[c].fn = "getEnvironmentalData"
    /\ call[c].pc # "compass"
    /\ call'[c].pc = "compass"

\* C27: getEnvironmentalData never rejects and every failure gives an
\* object with an `error` field: what it resolves to is data or such an
\* object; the fallback is contacted only after the direct OECD request has
\* returned; and no cache entry ever holds an empty payload or one with an
\* `error` field.
C27_ErrorsAsValues ==
    /\ [](\A key \in DOMAIN cache :
             self = "OECDEnvironmentalConnector"
             => ~Failed(cache[key].data) /\ cache[key].data # EmptyObject)
    /\ [][\A c \in Calls :
            /\ (Settles(c) /\ call'[c].fn = "getEnvironmentalData")
               => /\ call'[c].kind = "return"
                  /\ ~Failed(call'[c].value) \/ "error" \in DOMAIN call'[c].value
            /\ TurnsToCompass(c) => call[c].pc = "direct"]_vars

----------------------------------------------------------------------------
(* Completeness of formatEurostatData *)

\* the observations of the payload that are not null and whose year is 2018
\* or later
DueObservations(d) ==
    { i \in DOMAIN d.value :
        /\ d.value[i].val.type # "null"
        /\ ~ResolvedYear(d, d.value[i]).nan
        /\ ResolvedYear(d, d.value[i]).n >= 2018 }

\* C28: a payload with value and dimension yields one document for each
\* observation that is not null and whose year is 2018 or later: never more
\* documents than such observations, and never fewer than those of them whose
\* value is a number, so an observation that cannot be formatted costs no
\* document but its own.
C28_NormalizerComplete ==
    (at = "formatted" /\ responseJson # InvalidPayload
        /\ currentIndicator \in indicators)
    => /\ Len(documents) <= Cardinality(DueObservations(responseJson))
       /\ Len(documents) >= Cardinality({ i \in DueObservations(responseJson) :
                                responseJson.value[i].val.type = "number" })

----------------------------------------------------------------------------
(* Failure isolation in loadRealData *)

\* the place in the list of indicators and datasets of the item a document
\* was made from
ItemRank(doc) ==
    IF doc.source = "Eurostat"
    THEN CHOOSE i \in 1 .. 4 : indicatorNames[LoadItems[i]] = doc.topicName
    ELSE CHOOSE i \in 5 .. 6 : includes(doc.title, "(" \o LoadItems[i] \o ")")

\* s is the beginning of t
IsPrefix(s, t) == Len(s) <= Len(t) /\ SubSeq(t, 1, Len(s)) = s

\* C29: in loadRealData the requests are sent in the order of the list
\* whatever the earlier ones answered, all of them before the function
\* returns; no answer takes away a document collected before it; liveDocuments
\* is the Eurostat documents in the order of the indicators and then the OECD
\* documents in the order of the datasets; and the function returns false
\* exactly when liveDocuments is empty.
C29_FailureIsolation ==
    /\ [](running = "loadRealData"
          => /\ IsPrefix(requests, LoadItems)
             /\ at \in {"combine", "returned"} => requests = LoadItems
             /\ at = "returned"
                => /\ liveDocuments = eurostatResults \o oecdResults
                   /\ \A i, j \in DOMAIN liveDocuments :
                        i < j => ItemRank(liveDocuments[i]) <= ItemRank(liveDocuments[j])
                   /\ returned = Returned(liveDocuments # <<>>))
    /\ [][running = "loadRealData"
          => /\ IsPrefix(eurostatResults, eurostatResults')
             /\ IsPrefix(oecdResults, oecdResults')]_vars

\* the request of cei_wm011 has failed after cei_srm030 gave documents: the
\* documents are kept and cei_pc020 has been requested
C29_Witness ==
    /\ running = "loadRealData"
    /\ at = "await"
    /\ requests = <<"cei_srm030", "cei_wm011", "cei_pc020">>
    /\ responseJson = CyclePayload
    /\ eurostatResults # <<>>
    /\ eurostatResults = formatEurostatData(CyclePayload, "cei_srm030")

----------------------------------------------------------------------------
(* The loop over the datasets in fetchOECDData *)

\* C30: whatever way a later dataset fails, the sequence fetchOECDData
\* returns contains the documents of the datasets that succeeded before it.
C30_EarlierDatasetsRetained ==
    (running = "fetchOECDData" /\ at = "returned")
    => \A i \in DOMAIN allResults :
          \E j \in DOMAIN returned.value : returned.value[j] = allResults[i]

====
